---------------------------- MODULE Spec2Model ----------------------------
(***************************************************************************)
(* A model of the suruga TLS 1.2 client: the record layer (tls.rs), the    *)
(* wire codec of the handshake messages (tls_item.rs, handshake.rs), the   *)
(* handshake driver and the alert path (client.rs, alert.rs).              *)
(*                                                                         *)
(* Six specifications share the definitions: Spec is TlsClient::new        *)
(* against any peer, Session is the reads, writes and close of the         *)
(* application after a handshake with a peer that follows the protocol,    *)
(* Records is a TlsWriter and a TlsReader used on their own, Counters is   *)
(* the two of them counting records up to the width of their counters and  *)
(* a writer with the encryptor of a test, Channel is a writer, a network   *)
(* that replays and alters records and a reader with the same key, and     *)
(* Library is the codec, the AEAD, the PRF, the scalar ladder, the point   *)
(* decoding and crypto_compare called on their own.                        *)
(*                                                                         *)
(* Bytes are integers 0..255 and byte strings are sequences of them.  The  *)
(* transport sink is the byte string written so far; the transport source  *)
(* is the peer, which supplies the bytes of one record each time the       *)
(* client reads one.                                                       *)
(*                                                                         *)
(* The cryptographic primitives (SHA-256, the ChaCha20 block function,     *)
(* Poly1305, P-256 scalar multiplication) are replaced by small mixing     *)
(* functions with the same inputs and output lengths.  Everything built on *)
(* them (HMAC, the PRF with its block buffer, the AEAD framing, the key    *)
(* schedule) follows the source.  One property relies on a stand-in: that  *)
(* decrypt rejects a ciphertext with one bit flipped holds because the     *)
(* stand-in of Poly1305 gives another tag for each such input, which for   *)
(* Poly1305 itself holds up to a forgery probability and is not modelled.  *)
(* The arithmetic of Int256 and the check of a point received are not      *)
(* replaced where they are called on their own: they are computed on the   *)
(* bytes of the limbs.  In the ladder of mult_scalar a point is the binary *)
(* numeral of its multiple.                                                *)
(***************************************************************************)
EXTENDS Integers, Sequences, FiniteSets, Bags, TLC

VARIABLES
    pc,          \* position of the caller in TlsClient::new / handshake / the session
    writer,      \* TlsWriter: [encryptor, write_count, sink]
    reader,      \* TlsReader: [decryptor, read_count, handshake_buffer]
    hs,          \* the locals of TlsClient::handshake that live across reads
    err,         \* the TlsErrorKind handshake() returned, "None" before
    result,      \* what TlsClient::new returned: "None", "Ok" or a TlsErrorKind
    rng,         \* the state of the random source
    client_buf,  \* TlsClient.buf: application data read and not yet handed out
    calls,       \* history: the calls made on the session and what each returned
    source,      \* the bytes a transport filled in advance still holds for the reader
    wlog,        \* history: one entry per write_record call
    rlog,        \* history: one entry per read_record call
    mlog,        \* history: the messages read_message returned, with the state they came in
    wire_hs,     \* history: the handshake bytes sent and received, in wire order
    test_prf     \* the locals of a caller of Prf on its own: None, or
                 \* Some([prf, ret, size]): the Prf, the bytes got so far, the last size asked

vars == <<pc, writer, reader, hs, err, result, rng, client_buf, calls, source, wlog, rlog, mlog, wire_hs,
          test_prf>>

----------------------------------------------------------------------------
(* Bounds of the model *)

\* how many distinct seeds the random source can start from
MaxRng == 1
\* how many records the client reads before the peer stops sending
MaxReads == 9
\* how many write_record calls a run makes, the four of the handshake included
MaxWrites == 6
\* how many calls the application makes on the session
MaxCalls == 2
\* in how many places a stream of handshake messages is cut into records
MaxCuts == 2
\* the width in bits of the counters write_count and read_count, u64 in the
\* source; no run of the handshake counts as far as 2^SeqWidth - 1
SeqWidth == 4
\* how many bytes a caller gets from one Prf
MaxPrfBytes == 100
\* how many records a reader is handed from the ones its peer wrote
MaxDelivered == 2

----------------------------------------------------------------------------
(* Byte strings *)

Byte == 0..255

Rep(n, b) == [i \in 1..n |-> b]

Take(s, n) == SubSeq(s, 1, n)

Drop(s, n) == SubSeq(s, n + 1, Len(s))

Min(a, b) == IF a < b THEN a ELSE b

\* Option<T>: None is the empty sequence, Some(x) the one-element sequence
None == <<>>

Some(x) == <<x>>

\* the sum over the positions i of s of (s[i] + 1) times a weight that depends
\* on i and k, mod 32749
WeightedSum(s, k) ==
    BagCardinality([i \in 1..Len(s) |->
                       (s[i] + 1) * (((i * i * (2 * k + 1) + i * 17 + k) % 1021) + 1)]) % 32749

Sum1(s) == WeightedSum(s, 1)

Sum2(s) == WeightedSum(s, 2)

\* n output bytes drawn from different bit windows of the two sums a, b and a tweak c
Spread(a, b, c, n) ==
    [j \in 1..n |->
        ((a \div (2 ^ (j % 8))) + 3 * (b \div (2 ^ ((3 * j) % 8))) + a * j + b + c * 5 + j) % 256]

RECURSIVE Xor8Bits(_, _, _)
Xor8Bits(a, b, n) ==
    IF n = 0 THEN 0
    ELSE (((a % 2) + (b % 2)) % 2) + 2 * Xor8Bits(a \div 2, b \div 2, n - 1)

\* a ^ b on u8
Xor8(a, b) == Xor8Bits(a, b, 8)

\* stry_write_num!(u8 / u16 / u24, ..): big endian
write_u8(n) == <<n % 256>>

write_be_u16(n) == <<(n \div 256) % 256, n % 256>>

write_u24(n) == <<(n \div 65536) % 256, (n \div 256) % 256, n % 256>>

\* util::u64_be_array; the model's counters stay below 2^24
u64_be_array(x) ==
    [i \in 1..8 |-> IF i <= 5 THEN 0 ELSE (x \div (256 ^ (8 - i))) % 256]

\* util::u64_le_array
u64_le_array(x) ==
    [i \in 1..8 |-> IF i >= 4 THEN 0 ELSE (x \div (256 ^ (i - 1))) % 256]

be_u16(s, i) == s[i] * 256 + s[i + 1]

be_u24(s, i) == s[i] * 65536 + s[i + 1] * 256 + s[i + 2]

----------------------------------------------------------------------------
(* Error kinds (tls_result.rs) *)

TlsErrorKind ==
    {"UnexpectedMessage", "BadRecordMac", "RecordOverflow", "IllegalParameter",
     "DecodeError", "DecryptError", "InternalError", "IoFailure", "AlertReceived"}

----------------------------------------------------------------------------
(* Primitive crypto: stand-ins with the shapes of the source's functions *)

HASH_LEN == 32

HMAC_B == 64

MAC_LEN == 16

KEY_LEN == 32

CHACHA_BLOCK == 64

VERIFY_DATA_LEN == 12

MASTER_SECRET_LEN == 48

\* crypto::sha2::sha256: 32 bytes depending on every input byte and its position
sha256(msg) ==
    LET a == Sum1(msg)
        b == Sum2(msg)
        n == Len(msg)
    IN  Spread(a, b, n, HASH_LEN)

\* cipher::prf::hmac_sha256
hmac_sha256(key, msg) ==
    LET i_msg == [i \in 1..HMAC_B |-> IF i <= Len(key) THEN Xor8(54, key[i]) ELSE 54]
        o_msg == [i \in 1..HMAC_B |-> IF i <= Len(key) THEN Xor8(92, key[i]) ELSE 92]
        h_i == sha256(i_msg \o msg)
    IN  sha256(o_msg \o h_i)

\* Prf::new
Prf_new(secret, seed) ==
    [secret |-> secret, seed |-> seed, a |-> hmac_sha256(secret, seed), buf |-> <<>>]

\* Prf::next_block: the block and the Prf after it
Prf_next_block(prf) ==
    [block |-> hmac_sha256(prf.secret, prf.a \o prf.seed),
     prf |-> [prf EXCEPT !.a = hmac_sha256(prf.secret, prf.a)]]

RECURSIVE Prf_fill(_, _, _)
\* the while loop of Prf::get_bytes
Prf_fill(prf, ret, size) ==
    IF Len(ret) >= size THEN [ret |-> ret, prf |-> prf]
    ELSE LET nb == Prf_next_block(prf)
             slice_len == size - Len(ret)
         IN  IF slice_len > HASH_LEN
             THEN Prf_fill(nb.prf, ret \o nb.block, size)
             ELSE [ret |-> ret \o Take(nb.block, slice_len),
                   prf |-> [nb.prf EXCEPT !.buf = Drop(nb.block, slice_len)]]

\* a get_bytes that forgets the bytes left over from the last block
Prf_get_bytes_fresh(prf, size) ==
    Prf_fill([prf EXCEPT !.buf = <<>>], <<>>, size)

\* Prf::get_bytes: the bytes and the Prf after the call
Prf_get_bytes(prf, size) ==
    LET buflen == Len(prf.buf)
        ret0 == IF buflen > 0 THEN Take(prf.buf, Min(buflen, size)) ELSE <<>>
        prf0 == IF buflen > 0
                THEN [prf EXCEPT !.buf = IF buflen <= size THEN <<>> ELSE Drop(prf.buf, size)]
                ELSE prf
    IN  Prf_fill(prf0, ret0, size)

\* ChaCha20::next: the 64-byte block for (key, nonce, counter)
chacha20_block(key, nonce, counter) ==
    LET k == Sum1(key)
        n == Sum2(nonce)
    IN  Spread(k, n, counter, CHACHA_BLOCK)

\* ChaCha20::encrypt after one block was taken for the Poly1305 key:
\* byte i is xored with byte i of the keystream that starts at block 1
chacha20_encrypt(key, nonce, data) ==
    LET blocks == [c \in 1..((Len(data) + CHACHA_BLOCK - 1) \div CHACHA_BLOCK) |->
                      chacha20_block(key, nonce, c)]
    IN  [i \in 1..Len(data) |->
            Xor8(data[i], blocks[1 + ((i - 1) \div CHACHA_BLOCK)][1 + ((i - 1) % CHACHA_BLOCK)])]

\* poly1305::authenticate
poly1305_authenticate(msg, r, k) ==
    LET a == Sum1(msg)
        b == Sum2(msg)
        c == Sum2(r \o k)
    IN  Spread(a, (b + c) % 32749, Len(msg), MAC_LEN)

\* chacha20_poly1305::compute_mac
compute_mac(poly_key, encrypted, ad) ==
    LET msg == ad \o u64_le_array(Len(ad)) \o encrypted \o u64_le_array(Len(encrypted))
    IN  poly1305_authenticate(msg, SubSeq(poly_key, 1, MAC_LEN),
                              SubSeq(poly_key, MAC_LEN + 1, 2 * MAC_LEN))

\* ChaCha20Poly1305Encryptor::encrypt
aead_encrypt(key, nonce, data, ad) ==
    LET poly1305_key == chacha20_block(key, nonce, 0)
        encrypted == chacha20_encrypt(key, nonce, data)
    IN  encrypted \o compute_mac(poly1305_key, encrypted, ad)

\* a decrypt whose comparison loop stops one byte short of MAC_LEN
aead_decrypt_short_compare(key, nonce, data, ad) ==
    LET enc_len == Len(data)
    IN  IF enc_len < MAC_LEN THEN [res |-> "BadRecordMac", data |-> <<>>]
        ELSE LET encrypted == Take(data, enc_len - MAC_LEN)
                 mac_expected == Drop(data, enc_len - MAC_LEN)
                 poly1305_key == chacha20_block(key, nonce, 0)
                 mac_computed == compute_mac(poly1305_key, encrypted, ad)
                 plain == chacha20_encrypt(key, nonce, encrypted)
             IN  IF Take(mac_computed, MAC_LEN - 1) # Take(mac_expected, MAC_LEN - 1)
                 THEN [res |-> "BadRecordMac", data |-> <<>>]
                 ELSE [res |-> "Ok", data |-> plain]

\* ChaCha20Poly1305Decryptor::decrypt: [res, data]
aead_decrypt(key, nonce, data, ad) ==
    LET enc_len == Len(data)
    IN  IF enc_len < MAC_LEN THEN [res |-> "BadRecordMac", data |-> <<>>]
        ELSE LET encrypted == Take(data, enc_len - MAC_LEN)
                 mac_expected == Drop(data, enc_len - MAC_LEN)
                 poly1305_key == chacha20_block(key, nonce, 0)
                 mac_computed == compute_mac(poly1305_key, encrypted, ad)
                 plain == chacha20_encrypt(key, nonce, encrypted)
             IN  IF mac_computed # mac_expected
                 THEN [res |-> "BadRecordMac", data |-> <<>>]
                 ELSE [res |-> "Ok", data |-> plain]

\* util::crypto_compare (precondition: equal lengths)
crypto_compare(a, b) ==
    \A i \in 1..Len(a) : Xor8(a[i], b[i]) = 0

----------------------------------------------------------------------------
(* The wire codec: tls_item.rs's macros as tables, interpreted by            *)
(* tls_read / tls_write / tls_size                                           *)

Ok(v, rest) == [res |-> "Ok", val |-> v, rest |-> rest]

Fail(kind) == [res |-> kind, val |-> <<>>, rest |-> <<>>]

\* tls_enum!(repr, enum Name { item(n), .. }): bytes of the repr and the enumerated numbers
EnumTypes ==
    [CompressionMethod |-> [repr |-> 1, values |-> {0, 1}],
     NamedCurve |-> [repr |-> 2, values |-> (1..25) \cup {65281, 65282}],
     ECPointFormat |-> [repr |-> 1, values |-> {0, 1, 2}],
     ClientCertificateType |-> [repr |-> 1, values |-> {1, 2, 3, 4, 5, 6, 20}],
     HashAlgorithm |-> [repr |-> 1, values |-> 0..6],
     SignatureAlgorithm |-> [repr |-> 1, values |-> 0..3],
     AlertLevel |-> [repr |-> 1, values |-> {1, 2}],
     AlertDescription |-> [repr |-> 1,
         values |-> {0, 10, 20, 21, 22, 30, 40, 41, 42, 43, 44, 45, 46, 47, 48, 49, 50,
                     51, 60, 70, 71, 80, 90, 100, 110}]]

\* tls_array!(Name = [u8, ..n])
ArrayTypes == [Random |-> 32, VerifyData |-> 12]

\* tls_vec!(Name = Item(size_min, size_max))
VecTypes ==
    [CipherSuiteVec |-> [item |-> "CipherSuite", min |-> 2, max |-> 65534],
     CompressionMethodVec |-> [item |-> "CompressionMethod", min |-> 1, max |-> 255],
     SessionId |-> [item |-> "u8", min |-> 0, max |-> 32],
     Asn1Cert |-> [item |-> "u8", min |-> 1, max |-> 16777215],
     CertificateList |-> [item |-> "Asn1Cert", min |-> 0, max |-> 16777215],
     EllipticCurveList |-> [item |-> "NamedCurve", min |-> 1, max |-> 65535],
     ECPointFormatList |-> [item |-> "ECPointFormat", min |-> 1, max |-> 255],
     EllipticCurveListList |-> [item |-> "EllipticCurveList", min |-> 1, max |-> 65535],
     ECPointFormatListList |-> [item |-> "ECPointFormatList", min |-> 1, max |-> 65535],
     ExtensionVec |-> [item |-> "Extension", min |-> 0, max |-> 65535],
     CertificiateTypeVec |-> [item |-> "ClientCertificateType", min |-> 1, max |-> 255],
     DistinguishedName |-> [item |-> "u8", min |-> 1, max |-> 65535],
     DistinguishedNameVec |-> [item |-> "DistinguishedName", min |-> 0, max |-> 65535],
     SignatureAndHashAlgorithmVec |->
         [item |-> "SignatureAndHashAlgorithm", min |-> 2, max |-> 65534],
     Signature |-> [item |-> "u8", min |-> 0, max |-> 65535],
     EcData |-> [item |-> "u8", min |-> 1, max |-> 255]]

\* tls_struct!(struct Name { field: Type, .. }): the fields in order
StructTypes ==
    [ProtocolVersion |-> << <<"major", "u8">>, <<"minor", "u8">> >>,
     ClientHello |-> << <<"client_version", "ProtocolVersion">>, <<"random", "Random">>,
                        <<"session_id", "SessionId">>, <<"cipher_suites", "CipherSuiteVec">>,
                        <<"compression_methods", "CompressionMethodVec">>,
                        <<"extensions", "OptionExtensionVec">> >>,
     ServerHello |-> << <<"server_version", "ProtocolVersion">>, <<"random", "Random">>,
                        <<"session_id", "SessionId">>, <<"cipher_suite", "CipherSuite">>,
                        <<"compression_method", "CompressionMethod">>,
                        <<"extensions", "OptionExtensionVec">> >>,
     CertificateRequest |-> << <<"certificate_types", "CertificiateTypeVec">>,
                               <<"supported_signature_algorithms", "SignatureAndHashAlgorithmVec">>,
                               <<"certificate_authorities", "DistinguishedNameVec">> >>,
     SignatureAndHashAlgorithm |-> << <<"hash", "HashAlgorithm">>,
                                      <<"signature", "SignatureAlgorithm">> >>,
     DigitallySigned |-> << <<"algorithm", "SignatureAndHashAlgorithm">>,
                            <<"signature", "Signature">> >>,
     ServerEcdhParams |-> << <<"curve_params", "EcParameters">>, <<"public", "EcData">> >>,
     EcdheServerKeyExchange |-> << <<"params", "ServerEcdhParams">>,
                                   <<"signed_params", "DigitallySigned">> >>,
     Alert |-> << <<"level", "AlertLevel">>, <<"description", "AlertDescription">> >>]

\* tls_enum_struct!(repr, enum Name { variant(Body) = num, .. })
EnumStructTypes ==
    [Extension |-> [repr |-> 2, variants |-> {<<10, "EllipticCurveListList">>,
                                              <<11, "ECPointFormatListList">>}],
     EcParameters |-> [repr |-> 1, variants |-> {<<3, "NamedCurve">>}]]

\* tls_handshake!( name(Body) = num, .. )
HandshakeTypes ==
    {<<0, "DummyItem">>, <<1, "ClientHello">>, <<2, "ServerHello">>,
     <<11, "CertificateList">>, <<12, "ObscureData">>, <<13, "CertificateRequest">>,
     <<14, "DummyItem">>, <<16, "ObscureData">>, <<20, "VerifyData">>}

hello_request == 0

client_hello == 1

server_hello == 2

certificate == 11

server_key_exchange == 12

certificate_request == 13

server_hello_done == 14

client_key_exchange == 16

finished == 20

\* cipher_suite!: the identifier bytes of the one suite
TLS_ECDHE_RSA_WITH_CHACHA20_POLY1305_SHA256 == <<204, 19>>

UnknownCipherSuite == <<>>

BodyOf(variants, num) == (CHOOSE v \in variants : v[1] = num)[2]

\* the width of a vector's length field, chosen from size_max
LenBytes(size_max) ==
    IF size_max < 256 THEN 1 ELSE IF size_max < 65536 THEN 2 ELSE 3

\* stry_read_num!: n bytes big endian, IoFailure at the end of the input
read_num(n, b) ==
    IF Len(b) < n THEN Fail("IoFailure")
    ELSE Ok(IF n = 1 THEN b[1] ELSE IF n = 2 THEN be_u16(b, 1) ELSE be_u24(b, 1), Drop(b, n))

write_num(n, x) == IF n = 1 THEN write_u8(x) ELSE IF n = 2 THEN write_be_u16(x) ELSE write_u24(x)

RECURSIVE tls_size(_, _)
RECURSIVE data_size(_, _, _)
\* the sum of the items' tls_size
data_size(item_ty, v, i) ==
    IF i > Len(v) THEN 0
    ELSE IF item_ty = "u8" THEN Len(v) + 1 - i
    ELSE tls_size(item_ty, v[i]) + data_size(item_ty, v, i + 1)

RECURSIVE struct_size(_, _, _)
struct_size(fields, v, i) ==
    IF i > Len(fields) THEN 0
    ELSE tls_size(fields[i][2], v[fields[i][1]]) + struct_size(fields, v, i + 1)

\* TlsItem::tls_size
tls_size(t, v) ==
    CASE t = "u8" -> 1
      [] t \in DOMAIN EnumTypes -> EnumTypes[t].repr
      [] t \in DOMAIN ArrayTypes -> ArrayTypes[t]
      [] t \in DOMAIN VecTypes ->
            LenBytes(VecTypes[t].max) + data_size(VecTypes[t].item, v, 1)
      [] t \in DOMAIN StructTypes -> struct_size(StructTypes[t], v, 1)
      [] t \in DOMAIN EnumStructTypes ->
            EnumStructTypes[t].repr + tls_size(BodyOf(EnumStructTypes[t].variants, v.num), v.body)
      [] t = "CipherSuite" -> 2
      [] t = "OptionExtensionVec" -> IF v = None THEN 0 ELSE tls_size("ExtensionVec", v[1])
      [] t = "DummyItem" -> 0
      [] t = "ObscureData" -> Len(v)
      [] t = "Handshake" -> 1 + 3 + tls_size(BodyOf(HandshakeTypes, v.ty), v.body)

RECURSIVE tls_write(_, _)
RECURSIVE write_items(_, _, _)
write_items(item_ty, v, i) ==
    IF i > Len(v) THEN <<>>
    ELSE IF item_ty = "u8" THEN SubSeq(v, i, Len(v))
    ELSE tls_write(item_ty, v[i]) \o write_items(item_ty, v, i + 1)

RECURSIVE write_fields(_, _, _)
write_fields(fields, v, i) ==
    IF i > Len(fields) THEN <<>>
    ELSE tls_write(fields[i][2], v[fields[i][1]]) \o write_fields(fields, v, i + 1)

\* TlsItem::tls_write into a Vec<u8>: the bytes appended.  Writing the
\* UnknownCipherSuite appends nothing and fails (see tls_write_err).
tls_write(t, v) ==
    CASE t = "u8" -> write_u8(v)
      [] t \in DOMAIN EnumTypes -> write_num(EnumTypes[t].repr, v)
      [] t \in DOMAIN ArrayTypes -> v
      [] t \in DOMAIN VecTypes ->
            write_num(LenBytes(VecTypes[t].max), data_size(VecTypes[t].item, v, 1))
                \o write_items(VecTypes[t].item, v, 1)
      [] t \in DOMAIN StructTypes -> write_fields(StructTypes[t], v, 1)
      [] t \in DOMAIN EnumStructTypes ->
            write_num(EnumStructTypes[t].repr, v.num)
                \o tls_write(BodyOf(EnumStructTypes[t].variants, v.num), v.body)
      [] t = "CipherSuite" -> v
      [] t = "OptionExtensionVec" -> IF v = None THEN <<>> ELSE tls_write("ExtensionVec", v[1])
      [] t = "DummyItem" -> <<>>
      [] t = "ObscureData" -> v
      [] t = "Handshake" ->
            write_u8(v.ty) \o write_u24(tls_size(BodyOf(HandshakeTypes, v.ty), v.body))
                \o tls_write(BodyOf(HandshakeTypes, v.ty), v.body)

\* tls_write of a handshake message fails (UnexpectedMessage) exactly when it
\* has to write the UnknownCipherSuite
tls_write_err(v) == v.ty = server_hello /\ v.body.cipher_suite = UnknownCipherSuite

RECURSIVE tls_read(_, _)
RECURSIVE read_items(_, _, _, _, _)
\* the `while items_size < self_size` loop of a vector's tls_read:
\* [res, val = the items, rest, size = items_size]
read_items(item_ty, b, self_size, items_size, items) ==
    IF items_size >= self_size
    THEN [res |-> "Ok", val |-> items, rest |-> b, size |-> items_size]
    ELSE IF item_ty = "u8"
    THEN \* bytes, one per turn of the loop: all of them at once
         IF Len(b) < self_size - items_size
         THEN [res |-> "IoFailure", val |-> <<>>, rest |-> <<>>, size |-> 0]
         ELSE [res |-> "Ok", val |-> items \o Take(b, self_size - items_size),
               rest |-> Drop(b, self_size - items_size), size |-> self_size]
    ELSE LET r == tls_read(item_ty, b)
         IN  IF r.res # "Ok" THEN [res |-> r.res, val |-> <<>>, rest |-> <<>>, size |-> 0]
             ELSE read_items(item_ty, r.rest, self_size,
                             items_size + tls_size(item_ty, r.val), Append(items, r.val))

RECURSIVE read_fields(_, _, _, _)
\* a struct's fields, read in order into a record
read_fields(fields, b, i, acc) ==
    IF i > Len(fields) THEN Ok(acc, b)
    ELSE LET r == tls_read(fields[i][2], b)
         IN  IF r.res # "Ok" THEN Fail(r.res)
             ELSE read_fields(fields, r.rest, i + 1, (fields[i][1] :> r.val) @@ acc)

\* Name::new of a vector: the size checks
vec_new(t, v) ==
    LET size == data_size(VecTypes[t].item, v, 1)
    IN  IF size < VecTypes[t].min \/ size > VecTypes[t].max THEN "DecodeError" ELSE "Ok"

\* TlsItem::tls_read from a reader holding b: [res, val, rest]
tls_read(t, b) ==
    CASE t = "u8" -> read_num(1, b)
      [] t \in DOMAIN EnumTypes ->
            LET r == read_num(EnumTypes[t].repr, b)
            IN  IF r.res # "Ok" THEN r
                ELSE IF r.val \in EnumTypes[t].values THEN r ELSE Fail("DecodeError")
      [] t \in DOMAIN ArrayTypes ->
            IF Len(b) < ArrayTypes[t] THEN Fail("IoFailure")
            ELSE Ok(Take(b, ArrayTypes[t]), Drop(b, ArrayTypes[t]))
      [] t \in DOMAIN VecTypes ->
            LET l == read_num(LenBytes(VecTypes[t].max), b)
            IN  IF l.res # "Ok" THEN l
                ELSE LET r == read_items(VecTypes[t].item, l.rest, l.val, 0, <<>>)
                     IN  IF r.res # "Ok" THEN Fail(r.res)
                         ELSE IF r.size # l.val THEN Fail("DecodeError")
                         ELSE IF vec_new(t, r.val) # "Ok" THEN Fail(vec_new(t, r.val))
                         ELSE Ok(r.val, r.rest)
      [] t \in DOMAIN StructTypes -> read_fields(StructTypes[t], b, 1, <<>>)
      [] t \in DOMAIN EnumStructTypes ->
            LET n == read_num(EnumStructTypes[t].repr, b)
            IN  IF n.res # "Ok" THEN n
                ELSE IF \A v \in EnumStructTypes[t].variants : v[1] # n.val
                     THEN Fail("DecodeError")
                ELSE LET r == tls_read(BodyOf(EnumStructTypes[t].variants, n.val), n.rest)
                     IN  IF r.res # "Ok" THEN r
                         ELSE Ok([num |-> n.val, body |-> r.val], r.rest)
      [] t = "CipherSuite" ->
            IF Len(b) < 2 THEN Fail("IoFailure")
            ELSE IF Take(b, 2) = TLS_ECDHE_RSA_WITH_CHACHA20_POLY1305_SHA256
                 THEN Ok(TLS_ECDHE_RSA_WITH_CHACHA20_POLY1305_SHA256, Drop(b, 2))
                 ELSE Ok(UnknownCipherSuite, Drop(b, 2))
      [] t = "OptionExtensionVec" ->
            \* read_to_end, then the vector is read from the copy: what follows it is dropped
            IF Len(b) = 0 THEN Ok(None, <<>>)
            ELSE LET r == tls_read("ExtensionVec", b)
                 IN  IF r.res # "Ok" THEN r ELSE Ok(Some(r.val), <<>>)
      [] t = "DummyItem" -> Ok(<<>>, b)
      [] t = "ObscureData" -> Ok(b, <<>>)
      [] t = "Handshake" ->
            IF Len(b) < 4 THEN Fail("IoFailure")
            ELSE IF \A v \in HandshakeTypes : v[1] # b[1] THEN Fail("UnexpectedMessage")
            ELSE LET r == tls_read(BodyOf(HandshakeTypes, b[1]), Drop(b, 4))
                 IN  IF r.res # "Ok" THEN r
                     ELSE IF Len(r.rest) > 0 THEN Fail("InternalError")
                     ELSE Ok([ty |-> b[1], body |-> r.val], <<>>)

\* HandshakeBuffer::get_message, after the message's bytes were cut out of the
\* buffer and read (r): [res, msg = Option<Handshake>, buf = the buffer after]
message_read(rest, r) ==
    IF r.res # "Ok" THEN [res |-> r.res, msg |-> None, buf |-> rest]
    ELSE [res |-> "Ok", msg |-> Some(r.val), buf |-> rest]

\* get_message that empties the buffer when it returns a message
get_message_clearing(buf) ==
    IF Len(buf) < 4 \/ Len(buf) < be_u24(buf, 2) + 4 THEN [res |-> "Ok", msg |-> None, buf |-> buf]
    ELSE message_read(<<>>, tls_read("Handshake", Take(buf, be_u24(buf, 2) + 4)))

\* HandshakeBuffer::get_message: [res, msg = Option<Handshake>, buf = the buffer after]
get_message(buf) ==
    IF Len(buf) < 4 \/ Len(buf) < be_u24(buf, 2) + 4 THEN [res |-> "Ok", msg |-> None, buf |-> buf]
    ELSE message_read(Drop(buf, be_u24(buf, 2) + 4),
                      tls_read("Handshake", Take(buf, be_u24(buf, 2) + 4)))

----------------------------------------------------------------------------
(* The record layer (tls.rs) *)

ChangeCipherSpecTy == 20

AlertTy == 21

HandshakeTy == 22

ApplicationDataTy == 23

ContentType == {ChangeCipherSpecTy, AlertTy, HandshakeTy, ApplicationDataTy}

TLS_VERSION == <<3, 3>>

RECORD_MAX_LEN == 16384

ENC_RECORD_MAX_LEN == 18432

\* the five writes of write_record; a transport failure is the index (0..4) of
\* the first write that fails, NoFail when none does
NoFail == 5

FailPoints == {0, 4}

\* the values of a record counter
SeqModulus == 2 ^ SeqWidth

\* `count += 1` as a build without overflow checks computes it
seq_incremented(count) == (count + 1) % SeqModulus

\* whether `count += 1` overflows, which is a panic on a build with overflow
\* checks; res is what the record operation came to before the increment
overflows(count, res) == res = "Ok" /\ count = SeqModulus - 1

\* TlsWriter::new
TlsWriter_new == [encryptor |-> None, write_count |-> 0, sink |-> <<>>]

\* TlsReader::new
TlsReader_new == [decryptor |-> None, read_count |-> 0, handshake_buffer |-> <<>>]

\* Record::new
Record_new(content_type, ver_major, ver_minor, fragment) ==
    [content_type |-> content_type, ver_major |-> ver_major, ver_minor |-> ver_minor,
     fragment |-> fragment]

\* the associated data both directions build: seq_num, type, version, plaintext length
record_ad(seq_num, content_type, major, minor, frag_len) ==
    seq_num \o <<content_type, major, minor>> \o write_be_u16(frag_len)

\* set_encryptor without its assertion
set_encryptor_unchecked(w, key) ==
    [res |-> "Ok", writer |-> [w EXCEPT !.encryptor = Some(key), !.write_count = 0]]

\* TlsWriter::set_encryptor: [res, writer]; the assertion fails on a second call
set_encryptor(w, key) ==
    IF w.encryptor # None THEN [res |-> "Panic", writer |-> w]
    ELSE [res |-> "Ok", writer |-> [w EXCEPT !.encryptor = Some(key), !.write_count = 0]]

\* set_decryptor that keeps the counter of the cleartext records
set_decryptor_keep_count(r, key) ==
    IF r.decryptor # None THEN [res |-> "Panic", reader |-> r]
    ELSE [res |-> "Ok", reader |-> [r EXCEPT !.decryptor = Some(key)]]

\* TlsReader::set_decryptor
set_decryptor(r, key) ==
    IF r.decryptor # None THEN [res |-> "Panic", reader |-> r]
    ELSE [res |-> "Ok", reader |-> [r EXCEPT !.decryptor = Some(key), !.read_count = 0]]

\* write_record that counts the records whose write failed as well
\* a write_record that checks the length after the header is written
record_written_checked_late(w, record, fail, seq_num, ad, encrypted_fragment) ==
    LET fragment_len == Len(encrypted_fragment)
        res == IF fragment_len > ENC_RECORD_MAX_LEN THEN "Panic"
               ELSE IF fail = NoFail THEN "Ok" ELSE "IoFailure"
        written == (IF fail >= 1 THEN <<record.content_type>> ELSE <<>>)
                   \o (IF fail >= 2 THEN <<record.ver_major>> ELSE <<>>)
                   \o (IF fail >= 3 THEN <<record.ver_minor>> ELSE <<>>)
                   \o (IF fail >= 4 THEN write_be_u16(fragment_len % 65536) ELSE <<>>)
                   \o (IF fail >= 5 /\ res # "Panic" THEN encrypted_fragment ELSE <<>>)
    IN  [res |-> res,
         writer |-> [w EXCEPT !.sink = @ \o written,
                              !.write_count = IF res = "Ok" THEN seq_incremented(@) ELSE @],
         log |-> <<[count |-> w.write_count, encrypted |-> w.encryptor # None,
                    nonce |-> seq_num, ad |-> ad, content_type |-> record.content_type,
                    plain |-> record.fragment, wire |-> encrypted_fragment, res |-> res]>>]

record_written_counting_failures(w, record, fail, seq_num, ad, encrypted_fragment) ==
    LET fragment_len == Len(encrypted_fragment)
        res == IF fragment_len > ENC_RECORD_MAX_LEN THEN "Panic"
               ELSE IF fail = NoFail THEN "Ok" ELSE "IoFailure"
        written == (IF fail >= 1 THEN <<record.content_type>> ELSE <<>>)
                   \o (IF fail >= 2 THEN <<record.ver_major>> ELSE <<>>)
                   \o (IF fail >= 3 THEN <<record.ver_minor>> ELSE <<>>)
                   \o (IF fail >= 4 THEN write_be_u16(fragment_len) ELSE <<>>)
                   \o (IF fail >= 5 THEN encrypted_fragment ELSE <<>>)
    IN  [res |-> res,
         writer |-> IF res = "Panic" THEN w
                    ELSE [w EXCEPT !.sink = @ \o written,
                                   !.write_count = seq_incremented(@)],
         log |-> <<[count |-> w.write_count, encrypted |-> w.encryptor # None,
                    nonce |-> seq_num, ad |-> ad, content_type |-> record.content_type,
                    plain |-> record.fragment, wire |-> encrypted_fragment, res |-> res]>>]

\* TlsWriter::write_record from the length check on, the fragment already
\* encrypted when there is a cipher
record_written(w, record, fail, seq_num, ad, encrypted_fragment) ==
    LET fragment_len == Len(encrypted_fragment)
        res == IF fragment_len > ENC_RECORD_MAX_LEN THEN "Panic"
               ELSE IF fail = NoFail THEN "Ok" ELSE "IoFailure"
        written == (IF fail >= 1 THEN <<record.content_type>> ELSE <<>>)
                   \o (IF fail >= 2 THEN <<record.ver_major>> ELSE <<>>)
                   \o (IF fail >= 3 THEN <<record.ver_minor>> ELSE <<>>)
                   \o (IF fail >= 4 THEN write_be_u16(fragment_len) ELSE <<>>)
                   \o (IF fail >= 5 THEN encrypted_fragment ELSE <<>>)
    IN  [res |-> res,
         writer |-> IF res = "Panic" THEN w
                    ELSE [w EXCEPT !.sink = @ \o written,
                                   !.write_count = IF fail = NoFail THEN seq_incremented(@)
                                                   ELSE @],
         log |-> <<[count |-> w.write_count, encrypted |-> w.encryptor # None,
                    nonce |-> seq_num, ad |-> ad, content_type |-> record.content_type,
                    plain |-> record.fragment, wire |-> encrypted_fragment, res |-> res]>>]

\* the associated data write_record builds
write_ad(w, record) ==
    record_ad(u64_be_array(w.write_count), record.content_type, record.ver_major,
              record.ver_minor, Len(record.fragment))

\* TlsWriter::write_record with the transport failing at write number `fail`:
\* [res, writer, log = the history entry of this call]
write_record(w, record, fail) ==
    record_written(w, record, fail, u64_be_array(w.write_count), write_ad(w, record),
                   IF w.encryptor = None THEN record.fragment
                   ELSE aead_encrypt(w.encryptor[1], u64_be_array(w.write_count),
                                     record.fragment, write_ad(w, record)))

RECURSIVE write_chunks(_, _, _, _, _, _)
\* one turn of the loop of write_data, the record r of this turn written
chunk_written(r, ty, rest, fail, k, log) ==
    IF r.res # "Ok" THEN [res |-> r.res, writer |-> r.writer, log |-> log \o r.log]
    ELSE write_chunks(r.writer, ty, rest, fail, k + 1, log \o r.log)

\* write_data that puts all of data into one record
write_unchunked(w, ty, data, fail, k, log) ==
    IF Len(data) = 0 THEN [res |-> "Ok", writer |-> w, log |-> log]
    ELSE chunk_written(write_record(w, Record_new(ty, TLS_VERSION[1], TLS_VERSION[2], data),
                                    IF fail[1] = k THEN fail[2] ELSE NoFail),
                       ty, <<>>, fail, k, log)

\* the loop of write_data over data.chunks(RECORD_MAX_LEN); fail = <<k, point>>
\* makes the k-th write_record of the call fail at write number `point`
write_chunks(w, ty, data, fail, k, log) ==
    IF Len(data) = 0 THEN [res |-> "Ok", writer |-> w, log |-> log]
    ELSE chunk_written(write_record(w, Record_new(ty, TLS_VERSION[1], TLS_VERSION[2],
                                                  Take(data, Min(Len(data), RECORD_MAX_LEN))),
                                    IF fail[1] = k THEN fail[2] ELSE NoFail),
                       ty, Drop(data, Min(Len(data), RECORD_MAX_LEN)), fail, k, log)

\* TlsWriter::write_data
write_data(w, ty, data, fail) == write_chunks(w, ty, data, fail, 1, <<>>)

\* TlsWriter::write_handshake
write_handshake(w, handshake, fail) ==
    IF tls_write_err(handshake)
    THEN [res |-> "UnexpectedMessage", writer |-> w, log |-> <<>>]
    ELSE write_data(w, HandshakeTy, tls_write("Handshake", handshake), fail)

\* TlsWriter::write_alert
write_alert(w, alert, fail) == write_data(w, AlertTy, tls_write("Alert", alert), fail)

\* TlsWriter::write_change_cipher_spec
write_change_cipher_spec(w, fail) == write_data(w, ChangeCipherSpecTy, <<1>>, fail)

\* TlsWriter::write_application_data
write_application_data(w, data, fail) ==
    IF w.encryptor = None THEN [res |-> "Panic", writer |-> w, log |-> <<>>]
    ELSE write_data(w, ApplicationDataTy, data, fail)

\* read_record that reads the fragment before it checks the length field
record_header_length_last(wire) ==
    IF Len(wire) < 1 THEN "IoFailure"
    ELSE IF wire[1] \notin ContentType THEN "UnexpectedMessage"
    ELSE IF Len(wire) < 5 THEN "IoFailure"
    ELSE IF Len(wire) < 5 + be_u16(wire, 4) THEN "IoFailure"
    ELSE IF be_u16(wire, 4) > ENC_RECORD_MAX_LEN THEN "RecordOverflow"
    ELSE "Ok"

\* read_record that reports a content type it does not know as a failure of
\* the transport
record_header_type_as_io(wire) ==
    IF Len(wire) < 1 THEN "IoFailure"
    ELSE IF wire[1] \notin ContentType THEN "IoFailure"
    ELSE IF Len(wire) < 5 THEN "IoFailure"
    ELSE IF be_u16(wire, 4) > ENC_RECORD_MAX_LEN THEN "RecordOverflow"
    ELSE IF Len(wire) < 5 + be_u16(wire, 4) THEN "IoFailure"
    ELSE "Ok"

\* read_record up to the fragment: the error of the header, "Ok" when the
\* whole record was read from the bytes `wire` the transport holds
record_header(wire) ==
    IF Len(wire) < 1 THEN "IoFailure"
    ELSE IF wire[1] \notin ContentType THEN "UnexpectedMessage"
    ELSE IF Len(wire) < 5 THEN "IoFailure"
    ELSE IF be_u16(wire, 4) > ENC_RECORD_MAX_LEN THEN "RecordOverflow"
    ELSE IF Len(wire) < 5 + be_u16(wire, 4) THEN "IoFailure"
    ELSE "Ok"

\* the decryptor's answer, and the check on the length of what it returned
decrypted(dec) ==
    IF dec.res # "Ok" THEN dec
    ELSE IF Len(dec.data) > RECORD_MAX_LEN THEN [res |-> "Panic", data |-> <<>>]
    ELSE dec

\* read_record from the fragment on: [res, data = the plaintext fragment]
\* a read_record whose associated data names ApplicationData whatever the header says
record_fragment_type_unbound(r, wire, fragment) ==
    IF r.decryptor = None
    THEN IF Len(fragment) > RECORD_MAX_LEN THEN [res |-> "RecordOverflow", data |-> <<>>]
         ELSE [res |-> "Ok", data |-> fragment]
    ELSE IF Len(fragment) < MAC_LEN THEN [res |-> "BadRecordMac", data |-> <<>>]
    ELSE decrypted(aead_decrypt(r.decryptor[1], u64_be_array(r.read_count), fragment,
                                record_ad(u64_be_array(r.read_count), ApplicationDataTy, wire[2],
                                          wire[3], Len(fragment) - MAC_LEN)))

record_fragment(r, wire, fragment) ==
    IF r.decryptor = None
    THEN IF Len(fragment) > RECORD_MAX_LEN THEN [res |-> "RecordOverflow", data |-> <<>>]
         ELSE [res |-> "Ok", data |-> fragment]
    ELSE IF Len(fragment) < MAC_LEN THEN [res |-> "BadRecordMac", data |-> <<>>]
    ELSE decrypted(aead_decrypt(r.decryptor[1], u64_be_array(r.read_count), fragment,
                                record_ad(u64_be_array(r.read_count), wire[1], wire[2], wire[3],
                                          Len(fragment) - MAC_LEN)))

\* read_record that never advances the counter
record_read_no_advance(r, wire, o) ==
    [res |-> o.res,
     reader |-> r,
     record |-> IF o.res # "Ok" THEN Record_new(0, 0, 0, <<>>)
                ELSE Record_new(wire[1], wire[2], wire[3], o.data),
     log |-> <<[count |-> r.read_count, encrypted |-> r.decryptor # None,
                nonce |-> u64_be_array(r.read_count),
                content_type |-> IF o.res # "Ok" THEN 0 ELSE wire[1],
                plain |-> IF o.res # "Ok" THEN <<>> ELSE o.data,
                wire |-> wire, res |-> o.res]>>]

\* what read_record returns and leaves behind, given its outcome o = [res, data]
record_read(r, wire, o) ==
    LET record == IF o.res # "Ok" THEN Record_new(0, 0, 0, <<>>)
                  ELSE Record_new(wire[1], wire[2], wire[3], o.data)
    IN  [res |-> o.res,
         reader |-> IF o.res = "Ok" THEN [r EXCEPT !.read_count = seq_incremented(@)]
                    ELSE r,
         record |-> record,
         log |-> <<[count |-> r.read_count, encrypted |-> r.decryptor # None,
                    nonce |-> u64_be_array(r.read_count),
                    content_type |-> record.content_type, plain |-> record.fragment,
                    wire |-> wire, res |-> o.res]>>]

\* TlsReader::read_record on a transport that holds the bytes `wire` and then
\* fails: [res, reader, record, log = the history entry of this call]
read_record(r, wire) ==
    record_read(r, wire,
                IF record_header(wire) # "Ok" THEN [res |-> record_header(wire), data |-> <<>>]
                ELSE record_fragment(r, wire, SubSeq(wire, 6, 5 + be_u16(wire, 4))))

\* Message, the return type of read_message; "Pending" is the loop going round
\* again after a Handshake record that completed no message
Message(kind, handshake, alert, data) ==
    [kind |-> kind, handshake |-> handshake, alert |-> alert, data |-> data]

NoMessage == Message("Pending", None, None, <<>>)

\* what read_message makes of the answer g of get_message: [res, reader, msg, log]
buffered(r, g, log) ==
    [res |-> g.res,
     reader |-> [r EXCEPT !.handshake_buffer = g.buf],
     msg |-> IF g.res = "Ok" /\ g.msg # None THEN Message("Handshake", g.msg, None, <<>>)
             ELSE NoMessage,
     log |-> log]

\* read_message, first half: a message already complete in the reassembly
\* buffer is returned without reading
message_from_buffer(r) == buffered(r, get_message(r.handshake_buffer), <<>>)

\* the match of read_message without its checks for an empty fragment
dispatch_unchecked(rr) ==
    LET frag == rr.record.fragment
        out(res, msg) == [res |-> res, reader |-> rr.reader, msg |-> msg, log |-> rr.log]
    IN  IF rr.res # "Ok" THEN out(rr.res, NoMessage)
        ELSE CASE rr.record.content_type = ChangeCipherSpecTy ->
                    IF Len(frag) > 1 \/ (Len(frag) = 1 /\ frag[1] # 1)
                    THEN out("UnexpectedMessage", NoMessage)
                    ELSE out("Ok", Message("ChangeCipherSpec", None, None, <<>>))
               [] rr.record.content_type = AlertTy ->
                    IF Len(frag) = 1 THEN out("UnexpectedMessage", NoMessage)
                    ELSE IF Len(frag) = 0 THEN out("Ok", NoMessage)
                    ELSE IF frag[1] \in EnumTypes.AlertLevel.values
                            /\ frag[2] \in EnumTypes.AlertDescription.values
                         THEN out("Ok", Message("Alert", None,
                                                Some([level |-> frag[1],
                                                      description |-> frag[2]]), <<>>))
                         ELSE out("UnexpectedMessage", NoMessage)
               [] rr.record.content_type = HandshakeTy ->
                    buffered(rr.reader, get_message(rr.reader.handshake_buffer \o frag), rr.log)
               [] rr.record.content_type = ApplicationDataTy ->
                    out("Ok", Message("ApplicationData", None, None, frag))

\* the match of read_message with an Alert arm that skips a short fragment and
\* takes the two bytes as they are
dispatch_alert_unvalidated(rr) ==
    LET frag == rr.record.fragment
        out(res, msg) == [res |-> res, reader |-> rr.reader, msg |-> msg, log |-> rr.log]
    IN  IF rr.res # "Ok" THEN out(rr.res, NoMessage)
        ELSE CASE rr.record.content_type = ChangeCipherSpecTy ->
                    IF Len(frag) # 1 \/ frag[1] # 1 THEN out("UnexpectedMessage", NoMessage)
                    ELSE out("Ok", Message("ChangeCipherSpec", None, None, <<>>))
               [] rr.record.content_type = AlertTy ->
                    IF Len(frag) = 0 THEN out("UnexpectedMessage", NoMessage)
                    ELSE IF Len(frag) < 2 THEN out("Ok", NoMessage)
                    ELSE out("Ok", Message("Alert", None,
                                           Some([level |-> frag[1], description |-> frag[2]]),
                                           <<>>))
               [] rr.record.content_type = HandshakeTy ->
                    IF Len(frag) = 0 THEN out("UnexpectedMessage", NoMessage)
                    ELSE buffered(rr.reader, get_message(rr.reader.handshake_buffer \o frag),
                                  rr.log)
               [] rr.record.content_type = ApplicationDataTy ->
                    out("Ok", Message("ApplicationData", None, None, frag))

\* the arms of the match on the content type of the record rr just read
dispatch(rr) ==
    LET frag == rr.record.fragment
        out(res, msg) == [res |-> res, reader |-> rr.reader, msg |-> msg, log |-> rr.log]
    IN  IF rr.res # "Ok" THEN out(rr.res, NoMessage)
        ELSE CASE rr.record.content_type = ChangeCipherSpecTy ->
                    IF Len(frag) # 1 \/ frag[1] # 1 THEN out("UnexpectedMessage", NoMessage)
                    ELSE out("Ok", Message("ChangeCipherSpec", None, None, <<>>))
               [] rr.record.content_type = AlertTy ->
                    IF Len(frag) < 2 THEN out("UnexpectedMessage", NoMessage)
                    ELSE IF frag[1] \in EnumTypes.AlertLevel.values
                            /\ frag[2] \in EnumTypes.AlertDescription.values
                         THEN out("Ok", Message("Alert", None,
                                                Some([level |-> frag[1],
                                                      description |-> frag[2]]), <<>>))
                         ELSE out("UnexpectedMessage", NoMessage)
               [] rr.record.content_type = HandshakeTy ->
                    IF Len(frag) = 0 THEN out("UnexpectedMessage", NoMessage)
                    ELSE buffered(rr.reader, get_message(rr.reader.handshake_buffer \o frag),
                                  rr.log)
               [] rr.record.content_type = ApplicationDataTy ->
                    out("Ok", Message("ApplicationData", None, None, frag))

\* read_message, one turn of its loop: read a record and dispatch on its type
message_from_record(r, wire) == dispatch(read_record(r, wire))

\* whether a turn of read_message ended it: an error or a message
returns(b) == b.res # "Ok" \/ b.msg.kind # "Pending"

\* b when the buffer gave a message or an error, else what the record gave
first_message(b, rec) == IF returns(b) THEN b ELSE rec

\* read_message: from the buffer when it holds a complete message (nothing is
\* read then), else from the next record
read_message(r, wire) == first_message(message_from_buffer(r), message_from_record(r, wire))

\* whether read_message would return (or fail) without reading a record
BufferHasMessage(r) == returns(message_from_buffer(r))

\* read_handshake without the arm that rejects the other kinds of message
read_handshake_lenient(m) ==
    IF m.res # "Ok" THEN m.res
    ELSE CASE m.msg.kind = "Handshake" -> "Ok"
           [] m.msg.kind = "Alert" -> "AlertReceived"
           [] OTHER -> "Pending"

\* TlsReader::read_handshake, applied to what read_message returned
read_handshake(m) ==
    IF m.res # "Ok" THEN m.res
    ELSE CASE m.msg.kind = "Handshake" -> "Ok"
           [] m.msg.kind = "Alert" -> "AlertReceived"
           [] m.msg.kind = "Pending" -> "Pending"
           [] OTHER -> "UnexpectedMessage"

\* TlsReader::read_change_cipher_spec, applied to what read_message returned
read_change_cipher_spec(m) ==
    IF m.res # "Ok" THEN m.res
    ELSE CASE m.msg.kind = "ChangeCipherSpec" -> "Ok"
           [] m.msg.kind = "Pending" -> "Pending"
           [] OTHER -> "UnexpectedMessage"

----------------------------------------------------------------------------
(* Alerts (alert.rs) *)

close_notify == 0

unexpected_message == 10

bad_record_mac == 20

record_overflow == 22

handshake_failure == 40

illegal_parameter == 47

decode_error == 50

decrypt_error == 51

internal_error == 80

warning == 1

fatal == 2

\* from_err with the arms of decode_error and decrypt_error exchanged
from_err_exchanged(kind) ==
    CASE kind = "UnexpectedMessage" -> unexpected_message
      [] kind = "BadRecordMac" -> bad_record_mac
      [] kind = "RecordOverflow" -> record_overflow
      [] kind = "IllegalParameter" -> illegal_parameter
      [] kind = "DecodeError" -> decrypt_error
      [] kind = "DecryptError" -> decode_error
      [] kind = "InternalError" -> internal_error
      [] kind = "IoFailure" -> internal_error
      [] kind = "AlertReceived" -> close_notify

\* AlertDescription::from_err
from_err(kind) ==
    CASE kind = "UnexpectedMessage" -> unexpected_message
      [] kind = "BadRecordMac" -> bad_record_mac
      [] kind = "RecordOverflow" -> record_overflow
      [] kind = "IllegalParameter" -> illegal_parameter
      [] kind = "DecodeError" -> decode_error
      [] kind = "DecryptError" -> decrypt_error
      [] kind = "InternalError" -> internal_error
      [] kind = "IoFailure" -> internal_error
      [] kind = "AlertReceived" -> close_notify

\* Alert::from_tls_err
from_tls_err(kind) == [level |-> fatal, description |-> from_err(kind)]

----------------------------------------------------------------------------
(* Key exchange (cipher/ecdhe.rs) over a stand-in for the P-256 group *)

COORD_LEN == 32

secp256r1 == 23

\* the Y of the stand-in curve for a given X
CurveY(x) == Spread(Sum1(x), Sum2(x), 1, COORD_LEN)

\* NPoint256::from_uncompressed_bytes: TRUE when a point is returned
from_uncompressed_bytes_ok(data) ==
    /\ Len(data) = 1 + COORD_LEN * 2
    /\ data[1] = 4
    /\ SubSeq(data, 2 + COORD_LEN, 1 + 2 * COORD_LEN) = CurveY(SubSeq(data, 2, 1 + COORD_LEN))

\* point.mult_scalar(x).normalize() in uncompressed bytes
mult_scalar(point, x) ==
    LET px == Spread(Sum1(point), Sum2(point), x, COORD_LEN)
    IN  <<4>> \o px \o CurveY(px)

\* the base point G
G == <<4>> \o Rep(COORD_LEN, 107) \o CurveY(Rep(COORD_LEN, 107))

\* OsRng: the n-th draw of `len` bytes from a source seeded with `seed`
rng_bytes(r, len) == [i \in 1..len |-> (r.seed * 37 + r.draws * 101 + i * 3) % 256]

\* compute_keys after the parameters p were read; x is the random scalar
keys_computed(p, x) ==
    IF p.res # "Ok" THEN [res |-> p.res, key_data |-> <<>>, pre_master_secret |-> <<>>]
    ELSE IF ~from_uncompressed_bytes_ok(p.val.params.public)
         THEN [res |-> "IllegalParameter", key_data |-> <<>>, pre_master_secret |-> <<>>]
    ELSE [res |-> "Ok",
          key_data |-> tls_write("EcData", mult_scalar(G, x)),
          pre_master_secret |-> SubSeq(mult_scalar(p.val.params.public, x), 2, 1 + COORD_LEN)]

\* EllipticDiffieHellman::compute_keys: [res, key_data, pre_master_secret]
compute_keys(data, r) ==
    keys_computed(tls_read("EcdheServerKeyExchange", data), 1 + Sum1(rng_bytes(r, COORD_LEN)))

----------------------------------------------------------------------------
(* Handshake messages the client builds (handshake.rs) *)

\* Extension::new_elliptic_curve_list
new_elliptic_curve_list(list) == [num |-> 10, body |-> <<list>>]

\* Extension::new_ec_point_formats
new_ec_point_formats(list) == [num |-> 11, body |-> <<list>>]

uncompressed == 0

\* Handshake::new_client_hello
new_client_hello(random, cipher_suite, extensions) ==
    [ty |-> client_hello,
     body |-> [client_version |-> [major |-> TLS_VERSION[1], minor |-> TLS_VERSION[2]],
               random |-> random,
               session_id |-> <<>>,
               cipher_suites |-> <<cipher_suite>>,
               compression_methods |-> <<0>>,
               extensions |-> IF Len(extensions) = 0 THEN None ELSE Some(extensions)]]

\* Handshake::new_client_key_exchange
new_client_key_exchange(data) == [ty |-> client_key_exchange, body |-> data]

\* Handshake::new_finished
new_finished(data) == [ty |-> finished, body |-> data]

\* b"master secret", b"key expansion", b"client finished", b"server finished"
label_master_secret == <<109, 97, 115, 116, 101, 114, 32, 115, 101, 99, 114, 101, 116>>

label_key_expansion == <<107, 101, 121, 32, 101, 120, 112, 97, 110, 115, 105, 111, 110>>

label_client_finished ==
    <<99, 108, 105, 101, 110, 116, 32, 102, 105, 110, 105, 115, 104, 101, 100>>

label_server_finished ==
    <<115, 101, 114, 118, 101, 114, 32, 102, 105, 110, 105, 115, 104, 101, 100>>

\* the master secret of TlsClient::handshake
master_secret_of(pre_master_secret, cli_random, server_random) ==
    Prf_get_bytes(Prf_new(pre_master_secret,
                          label_master_secret \o cli_random \o server_random),
                  MASTER_SECRET_LEN).ret

\* the key block of TlsClient::handshake: the write key, then the read key
key_block(master_secret, cli_random, server_random) ==
    LET prf == Prf_new(master_secret, label_key_expansion \o server_random \o cli_random)
        w == Prf_get_bytes(prf, KEY_LEN)
        r == Prf_get_bytes(w.prf, KEY_LEN)
    IN  [write_key |-> w.ret, read_key |-> r.ret]

\* verify data: PRF(master_secret, label ++ sha256(messages)), 12 bytes
verify_data(master_secret, label, messages) ==
    Prf_get_bytes(Prf_new(master_secret, label \o sha256(messages)), VERIFY_DATA_LEN).ret

----------------------------------------------------------------------------
(* The peer: the records a server, honest or not, may put on the transport *)

\* a handshake message on the wire: type, 24-bit length, body
HsMsg(ty, body) == <<ty>> \o write_u24(Len(body)) \o body

\* a record on the wire
Rec(ty, major, minor, fragment) == <<ty, major, minor>> \o write_be_u16(Len(fragment)) \o fragment

ServerRandom == Rep(32, 7)

ServerHelloBody(version, suite, compression, extensions) ==
    version \o ServerRandom \o <<0>> \o suite \o <<compression>> \o extensions

SH_ok == HsMsg(server_hello, ServerHelloBody(TLS_VERSION, <<204, 19>>, 0, <<>>))

\* with the ec_point_formats extension
SH_ext ==
    HsMsg(server_hello, ServerHelloBody(TLS_VERSION, <<204, 19>>, 0, <<0, 6, 0, 11, 0, 2, 1, 0>>))

\* an empty extension vector followed by one more byte
SH_trail == HsMsg(server_hello, ServerHelloBody(TLS_VERSION, <<204, 19>>, 0, <<0, 0, 0>>))

\* with the renegotiation_info extension, which the client does not know
SH_unknown_ext ==
    HsMsg(server_hello, ServerHelloBody(TLS_VERSION, <<204, 19>>, 0, <<0, 5, 255, 1, 0, 1, 0>>))

SH_version == HsMsg(server_hello, ServerHelloBody(<<3, 1>>, <<204, 19>>, 0, <<>>))

SH_suite == HsMsg(server_hello, ServerHelloBody(TLS_VERSION, <<0, 47>>, 0, <<>>))

SH_compression == HsMsg(server_hello, ServerHelloBody(TLS_VERSION, <<204, 19>>, 1, <<>>))

CERT == HsMsg(certificate, <<0, 0, 5, 0, 0, 2, 48, 0>>)

ServerPoint == mult_scalar(G, 5)

ServerKeyExchangeBody(point) ==
    <<3, 0, secp256r1>> \o <<Len(point)>> \o point \o <<4, 1, 0, 2, 9, 9>>

\* the curve secp384r1 named, with a point of the curve secp256r1
SKX_other_curve ==
    HsMsg(server_key_exchange, <<3, 0, 24>> \o <<Len(ServerPoint)>> \o ServerPoint
                               \o <<4, 1, 0, 2, 9, 9>>)

SKX_ok == HsMsg(server_key_exchange, ServerKeyExchangeBody(ServerPoint))

\* a point that is not on the curve
SKX_off_curve == HsMsg(server_key_exchange, ServerKeyExchangeBody(<<4>> \o Rep(2 * COORD_LEN, 1)))

SHD == HsMsg(server_hello_done, <<>>)

\* a ServerHelloDone with a body
SHD_body == HsMsg(server_hello_done, <<0>>)

HELLO_REQ == HsMsg(hello_request, <<>>)

CERT_REQ == HsMsg(certificate_request, <<1, 1, 0, 2, 4, 1, 0, 0>>)

\* NewSessionTicket, a handshake type the client has no variant for
NEW_TICKET == HsMsg(4, <<>>)

FIN(data) == HsMsg(finished, data)

ServerMessages ==
    {SH_ok, SH_ext, SH_trail, SH_unknown_ext, SH_version, SH_suite, SH_compression,
     CERT, SKX_ok, SKX_off_curve, SHD, SHD_body, HELLO_REQ, CERT_REQ, NEW_TICKET,
     FIN(Rep(12, 1))}

\* several messages in one record, and the first fragment of a split message
FirstFragments ==
    {SH_ok \o CERT, CERT \o SKX_ok \o SHD, Take(SH_ok, 2)}

\* the rest of a message whose beginning is what the reassembly buffer holds
Continuations(buf) ==
    {Drop(m, Len(buf)) : m \in {x \in ServerMessages : Len(x) > Len(buf) /\ Take(x, Len(buf)) = buf}}

\* records that are not handshake records, and malformed ones
OtherRecords ==
    {Rec(ChangeCipherSpecTy, 3, 3, <<1>>), Rec(ChangeCipherSpecTy, 3, 3, <<2>>),
     Rec(ChangeCipherSpecTy, 3, 3, <<>>),
     Rec(AlertTy, 3, 3, <<fatal, handshake_failure>>), Rec(AlertTy, 3, 3, <<warning, close_notify>>),
     Rec(AlertTy, 3, 3, <<fatal>>), Rec(AlertTy, 3, 3, <<>>), Rec(AlertTy, 3, 3, <<3, 40>>),
     Rec(ApplicationDataTy, 3, 3, <<1, 2>>),
     Rec(HandshakeTy, 3, 3, <<>>),
     <<24, 3, 3, 0, 0>>, <<HandshakeTy, 3, 3, 255, 255>>, <<HandshakeTy, 3, 3, 0, 4, 14>>, <<>>}

\* what the server sends before its ChangeCipherSpec
\* the peer that names another curve does so in its first ServerKeyExchange,
\* after the plain ServerHello and the Certificate
OtherCurveNext == Len(wire_hs) = 3 /\ wire_hs[2] = SH_ok /\ wire_hs[3] = CERT

\* the peer that starts its Finished too early sends the four bytes of its
\* header in the clear, before its ChangeCipherSpec, after a handshake of one
\* message per record
EarlyFinishedNext ==
    /\ pc = "wait_ccs"
    /\ Len(rlog) = 4
    /\ wire_hs[2] = SH_ok /\ wire_hs[4] = SKX_ok

CleartextRecords(buf) ==
    {Rec(HandshakeTy, 3, 3, f) :
        f \in IF Len(buf) = 0 THEN ServerMessages \cup FirstFragments ELSE Continuations(buf)}
    \cup (IF Len(buf) = 0 THEN {Rec(HandshakeTy, 3, 1, SH_ok)} ELSE {})
    \cup (IF Len(buf) = 0 /\ OtherCurveNext THEN {Rec(HandshakeTy, 3, 3, SKX_other_curve)} ELSE {})
    \cup (IF Len(buf) = 0 /\ EarlyFinishedNext
          THEN {Rec(HandshakeTy, 3, 3, Take(FIN(Rep(VERIFY_DATA_LEN, 1)), 4))} ELSE {})
    \cup OtherRecords

\* a record protected under the key and sequence number given
Enc(key, seq, ty, plain) ==
    Rec(ty, 3, 3, aead_encrypt(key, u64_be_array(seq), plain,
                               record_ad(u64_be_array(seq), ty, 3, 3, Len(plain))))

\* s with its i-th byte changed
Flip(s, i) == [s EXCEPT ![i] = Xor8(@, 1)]

\* the byte string s with bit b of byte i flipped
FlipBit(s, i, b) == [s EXCEPT ![i] = Xor8(@, 2 ^ b)]

----------------------------------------------------------------------------
(* TlsClient::new (client.rs): the handshake, one action per transport step *)

RECURSIVE Concat(_)
\* the messages of a list, joined in order
Concat(list) == IF Len(list) = 0 THEN <<>> ELSE Concat(Take(list, Len(list) - 1)) \o list[Len(list)]

\* the verify data of the server's Finished as the client will compute it
OwnVerifyData ==
    verify_data(hs.master_secret, label_server_finished,
                hs.msgs \o tls_write("Handshake", hs.finished[1]))

\* the verify data of the server's Finished over the bytes that were on the wire
WireVerifyData == verify_data(hs.master_secret, label_server_finished, Concat(wire_hs))

\* the Finished messages a server may send, the first being the one the client expects
ServerFinishedMessages(own, raw) ==
    <<FIN(own), FIN(raw), FIN(Flip(own, 1)), FIN(Flip(own, VERIFY_DATA_LEN))>>

\* the records a server may send after its ChangeCipherSpec
Sealed(key, seq, buf, fins) ==
    {Enc(key, seq, HandshakeTy, f) :
        f \in IF Len(buf) = 0
              THEN {fins[i] : i \in 1..Len(fins)} \cup {Take(fins[1], 6), SHD}
              ELSE {Drop(fins[i], Len(buf)) :
                        i \in {j \in 1..Len(fins) : Take(fins[j], Len(buf)) = buf}}}
    \cup {Enc(key, seq, AlertTy, <<fatal, handshake_failure>>),
          Enc(key, seq, ApplicationDataTy, <<1, 2>>),
          Enc(key, seq, ChangeCipherSpecTy, <<1>>),
          Enc(key, seq + 1, HandshakeTy, fins[1]),
          Enc(Rep(KEY_LEN, 0), seq, HandshakeTy, fins[1]),
          Flip(Enc(key, seq, HandshakeTy, fins[1]), 5 + Len(fins[1]) + MAC_LEN),
          Rec(HandshakeTy, 3, 3, fins[1]),
          Rec(HandshakeTy, 3, 3, <<1, 2, 3>>),
          <<>>}

\* what the server sends after its ChangeCipherSpec
EncryptedRecords ==
    Sealed(hs.read_key, reader.read_count, reader.handshake_buffer,
           ServerFinishedMessages(OwnVerifyData, WireVerifyData))

\* the records the transport may deliver to the next read_record
PeerRecords ==
    IF hs.reads >= MaxReads THEN {<<>>}
    ELSE IF reader.decryptor = None THEN CleartextRecords(reader.handshake_buffer)
    ELSE EncryptedRecords

\* read_message reads nothing when the buffer already holds a message
Inbound == IF BufferHasMessage(reader) THEN {<<>>} ELSE PeerRecords

\* how each write may fail: <<k, point>> fails the k-th record of the call
\* at write number `point`; <<0, NoFail>> fails nothing
WriteFailures == {<<0, NoFail>>} \cup {<<1, p>> : p \in FailPoints}

NoHandshake ==
    [cli_random |-> <<>>, client_hello |-> None, server_hello_data |-> None,
     certificate_list |-> None, server_key_ex_data |-> None, key_data |-> <<>>,
     pre_master_secret |-> <<>>, client_key_exchange |-> None, master_secret |-> <<>>,
     read_key |-> <<>>, msgs |-> <<>>, finished |-> None, serv_msgs |-> <<>>, reads |-> 0]

Init ==
    /\ pc = "start"
    /\ writer = TlsWriter_new
    /\ reader = TlsReader_new
    /\ hs = NoHandshake
    /\ err = "None"
    /\ result = "None"
    /\ rng \in {[seed |-> s, draws |-> 0] : s \in 1..MaxRng}
    /\ client_buf = <<>>
    /\ calls = <<>>
    /\ source = <<>>
    /\ wlog = <<>>
    /\ rlog = <<>>
    /\ mlog = <<>>
    /\ wire_hs = <<>>
    /\ test_prf = None

\* the bytes of the message that read_message just took out of the buffer
RawMessage(m) ==
    LET before == reader.handshake_buffer \o (IF Len(m.log) = 0 THEN <<>> ELSE m.log[1].plain)
    IN  Take(before, Len(before) - Len(m.reader.handshake_buffer))

\* the history of a read_message call: records read, message returned
Received(m) ==
    /\ rlog' = rlog \o m.log
    /\ mlog' = IF m.res = "Ok" /\ m.msg.kind # "Pending"
               THEN Append(mlog, [at |-> pc, kind |-> m.msg.kind,
                                  ty |-> IF m.msg.kind = "Handshake"
                                         THEN m.msg.handshake[1].ty ELSE 255])
               ELSE mlog
    /\ wire_hs' = IF m.res = "Ok" /\ m.msg.kind = "Handshake"
                  THEN Append(wire_hs, RawMessage(m)) ELSE wire_hs

\* handshake() returns Err(kind); new will call send_tls_alert
Failed(kind) == pc' = "failed" /\ err' = kind

\* expect!(var) applied to what read_message returned
expect(m, ty) ==
    LET r == read_handshake(m)
    IN  IF r # "Ok" THEN r
        ELSE IF m.msg.handshake[1].ty # ty THEN "UnexpectedMessage" ELSE "Ok"

\* records read so far, counted to bound the run
CountRead(m) == [hs EXCEPT !.reads = @ + Len(m.log)]

\* the way on from a read step: the loop of read_message goes round again
\* ("Pending"), the handshake goes on to `next`, or handshake() returns Err
Outcome(m, res, hs_ok, next) ==
    /\ Received(m)
    /\ reader' = m.reader
    /\ CASE res = "Pending" -> pc' = pc /\ err' = err /\ hs' = CountRead(m)
         [] res = "Ok" -> pc' = next /\ err' = err /\ hs' = hs_ok
         [] OTHER -> Failed(res) /\ hs' = CountRead(m)

\* the way on from a write step
Written(w, next) ==
    /\ writer' = w.writer
    /\ wlog' = wlog \o w.log
    /\ IF w.res = "Ok" THEN pc' = next /\ err' = err ELSE Failed(w.res)

\* the way on from the write of the handshake message h
WrittenHandshake(w, h, next) ==
    /\ Written(w, next)
    /\ wire_hs' = IF w.res = "Ok" THEN Append(wire_hs, tls_write("Handshake", h)) ELSE wire_hs

\* client.rs 65-84: the random, the ClientHello, write_handshake
ClientHelloOf(cli_random) ==
    new_client_hello(cli_random, TLS_ECDHE_RSA_WITH_CHACHA20_POLY1305_SHA256,
                     <<new_elliptic_curve_list(<<secp256r1>>),
                       new_ec_point_formats(<<uncompressed>>)>>)

WriteClientHello ==
    /\ pc = "start"
    /\ \E f \in WriteFailures :
        WrittenHandshake(write_handshake(writer, ClientHelloOf(rng_bytes(rng, 32)), f),
                         ClientHelloOf(rng_bytes(rng, 32)), "wait_sh")
    /\ rng' = [rng EXCEPT !.draws = @ + 1]
    /\ hs' = [hs EXCEPT !.cli_random = rng_bytes(rng, 32),
                        !.client_hello = Some(ClientHelloOf(rng_bytes(rng, 32)))]
    /\ UNCHANGED <<reader, result, client_buf, calls, source, rlog, mlog, test_prf>>

\* the checks on the ServerHello with the version check alone
check_server_version(sh) ==
    IF <<sh.server_version.major, sh.server_version.minor>> # TLS_VERSION THEN "IllegalParameter"
    ELSE "Ok"

\* the checks on the ServerHello, client.rs 87-110
check_server_hello(sh) ==
    IF <<sh.server_version.major, sh.server_version.minor>> # TLS_VERSION THEN "IllegalParameter"
    ELSE IF sh.cipher_suite # TLS_ECDHE_RSA_WITH_CHACHA20_POLY1305_SHA256 THEN "IllegalParameter"
    ELSE IF sh.compression_method # 0 THEN "IllegalParameter"
    ELSE "Ok"

\* expect!(server_hello) and the checks, applied to what read_message returned
ServerHelloRead(m) ==
    Outcome(m,
            IF expect(m, server_hello) # "Ok" THEN expect(m, server_hello)
            ELSE check_server_hello(m.msg.handshake[1].body),
            [CountRead(m) EXCEPT !.server_hello_data = Some(m.msg.handshake[1].body)],
            "wait_cert")

\* client.rs 86-110: expect!(server_hello) and its checks
ExpectServerHello ==
    /\ pc = "wait_sh"
    /\ \E wire \in Inbound : ServerHelloRead(read_message(reader, wire))
    /\ UNCHANGED <<writer, result, rng, client_buf, calls, source, wlog, test_prf>>

CertificateRead(m) ==
    Outcome(m, expect(m, certificate),
            [CountRead(m) EXCEPT !.certificate_list = Some(m.msg.handshake[1].body)],
            "wait_skx")

\* client.rs 113: expect!(certificate)
ExpectCertificate ==
    /\ pc = "wait_cert"
    /\ \E wire \in Inbound : CertificateRead(read_message(reader, wire))
    /\ UNCHANGED <<writer, result, rng, client_buf, calls, source, wlog, test_prf>>

\* expect!(server_key_exchange) done (e), then compute_keys (keys)
ServerKeyExchangeRead(m, e, keys) ==
    /\ Outcome(m, IF e # "Ok" THEN e ELSE keys.res,
               [CountRead(m) EXCEPT !.server_key_ex_data = Some(m.msg.handshake[1].body),
                                    !.key_data = keys.key_data,
                                    !.pre_master_secret = keys.pre_master_secret],
               "wait_shd")
    /\ rng' = IF e = "Ok" /\ keys.res = "Ok" THEN [rng EXCEPT !.draws = @ + 1] ELSE rng

ServerKeyExchangeMessage(m) ==
    ServerKeyExchangeRead(m, expect(m, server_key_exchange),
                          IF expect(m, server_key_exchange) # "Ok"
                          THEN [res |-> "Ok", key_data |-> <<>>, pre_master_secret |-> <<>>]
                          ELSE compute_keys(m.msg.handshake[1].body, rng))

\* client.rs 117-120: expect!(server_key_exchange), then compute_keys
ExpectServerKeyExchange ==
    /\ pc = "wait_skx"
    /\ \E wire \in Inbound : ServerKeyExchangeMessage(read_message(reader, wire))
    /\ UNCHANGED <<writer, result, client_buf, calls, source, wlog, test_prf>>

ServerHelloDoneRead(m) == Outcome(m, expect(m, server_hello_done), CountRead(m), "send_ckx")

\* client.rs 122: expect!(server_hello_done)
ExpectServerHelloDone ==
    /\ pc = "wait_shd"
    /\ \E wire \in Inbound : ServerHelloDoneRead(read_message(reader, wire))
    /\ UNCHANGED <<writer, result, rng, client_buf, calls, source, wlog, test_prf>>

\* client.rs 124-125: the ClientKeyExchange
WriteClientKeyExchange ==
    /\ pc = "send_ckx"
    /\ \E f \in WriteFailures :
        WrittenHandshake(write_handshake(writer, new_client_key_exchange(hs.key_data), f),
                         new_client_key_exchange(hs.key_data), "send_ccs")
    /\ hs' = [hs EXCEPT !.client_key_exchange = Some(new_client_key_exchange(hs.key_data))]
    /\ UNCHANGED <<reader, result, rng, client_buf, calls, source, rlog, mlog, test_prf>>

\* client.rs 127: write_change_cipher_spec
WriteChangeCipherSpec ==
    /\ pc = "send_ccs"
    /\ \E f \in WriteFailures : Written(write_change_cipher_spec(writer, f), "set_enc")
    /\ UNCHANGED <<reader, hs, result, rng, client_buf, calls, source, rlog, mlog, wire_hs, test_prf>>

\* the key schedule done, set_encryptor called (s)
EncryptorSet(master_secret, keys, s) ==
    /\ writer' = s.writer
    /\ pc' = IF s.res = "Panic" THEN "panicked" ELSE "send_fin"
    /\ hs' = [hs EXCEPT !.master_secret = master_secret, !.read_key = keys.read_key]

KeysDerived(master_secret, keys) ==
    EncryptorSet(master_secret, keys, set_encryptor(writer, keys.write_key))

MasterSecretDerived(master_secret) ==
    KeysDerived(master_secret,
                key_block(master_secret, hs.cli_random, hs.server_hello_data[1].random))

\* client.rs 129-163: the master secret, the key block, set_encryptor
InstallEncryptor ==
    /\ pc = "set_enc"
    /\ MasterSecretDerived(master_secret_of(hs.pre_master_secret, hs.cli_random,
                                            hs.server_hello_data[1].random))
    /\ UNCHANGED <<reader, err, result, rng, client_buf, calls, source, wlog, rlog, mlog, wire_hs, test_prf>>

\* the transcript of client.rs 166-175: the messages written again from their
\* parsed form
handshake_msgs(h) ==
    tls_write("Handshake", h.client_hello[1])
        \o tls_write("Handshake", [ty |-> server_hello, body |-> h.server_hello_data[1]])
        \o tls_write("Handshake", [ty |-> certificate, body |-> h.certificate_list[1]])
        \o tls_write("Handshake", [ty |-> server_key_exchange, body |-> h.server_key_ex_data[1]])
        \o tls_write("Handshake", [ty |-> server_hello_done, body |-> <<>>])
        \o tls_write("Handshake", h.client_key_exchange[1])

\* client.rs 184-194: the client's verify data, from the transcript
client_verify_data(master_secret, msgs) ==
    Prf_get_bytes(Prf_new(master_secret, label_client_finished \o sha256(msgs)),
                  VERIFY_DATA_LEN).ret

\* the transcript and the Finished built, write_handshake called
FinishedBuilt(msgs, fin, f) ==
    /\ WrittenHandshake(write_handshake(writer, fin, f), fin, "wait_ccs")
    /\ hs' = [hs EXCEPT !.msgs = msgs, !.finished = Some(fin)]

TranscriptBuilt(msgs, f) ==
    FinishedBuilt(msgs, new_finished(client_verify_data(hs.master_secret, msgs)), f)

\* client.rs 165-195: the transcript, the verify data, the client Finished
WriteFinished ==
    /\ pc = "send_fin"
    /\ \E f \in WriteFailures : TranscriptBuilt(handshake_msgs(hs), f)
    /\ UNCHANGED <<reader, result, rng, client_buf, calls, source, rlog, mlog, test_prf>>

ChangeCipherSpecRead(m) == Outcome(m, read_change_cipher_spec(m), CountRead(m), "set_dec")

\* client.rs 197-199: read_change_cipher_spec
ReadChangeCipherSpec ==
    /\ pc = "wait_ccs"
    /\ \E wire \in Inbound : ChangeCipherSpecRead(read_message(reader, wire))
    /\ UNCHANGED <<writer, result, rng, client_buf, calls, source, wlog, test_prf>>

DecryptorSet(s) ==
    /\ reader' = s.reader
    /\ pc' = IF s.res = "Panic" THEN "panicked" ELSE "wait_sf"

\* client.rs 201-202: set_decryptor
InstallDecryptor ==
    /\ pc = "set_dec"
    /\ DecryptorSet(set_decryptor(reader, hs.read_key))
    /\ UNCHANGED <<writer, hs, err, result, rng, client_buf, calls, source, wlog, rlog, mlog, wire_hs, test_prf>>

\* client.rs 206-215: the transcript the server's Finished covers
serv_msgs_of(h) == h.msgs \o tls_write("Handshake", h.finished[1])

\* client.rs 217-224: the verify data the server's Finished must carry
server_verify_data(master_secret, serv_msgs) ==
    Prf_get_bytes(Prf_new(master_secret, label_server_finished \o sha256(serv_msgs)),
                  VERIFY_DATA_LEN).ret

\* client.rs 204-231: the check of the server's Finished
check_server_finished(h, server_finished) ==
    IF crypto_compare(server_finished, server_verify_data(h.master_secret, serv_msgs_of(h)))
    THEN "Ok" ELSE "DecryptError"

\* expect!(finished) and the check done (res)
FinishedChecked(m, res) ==
    /\ Outcome(m, res, [CountRead(m) EXCEPT !.serv_msgs = serv_msgs_of(hs)], "open")
    /\ result' = IF res = "Ok" THEN "Ok" ELSE result

FinishedRead(m) ==
    FinishedChecked(m, IF expect(m, finished) # "Ok" THEN expect(m, finished)
                       ELSE check_server_finished(hs, m.msg.handshake[1].body))

\* client.rs 204-233 and 36-40: expect!(finished), the check, new returns Ok
ExpectFinished ==
    /\ pc = "wait_sf"
    /\ \E wire \in Inbound : FinishedRead(read_message(reader, wire))
    /\ UNCHANGED <<writer, rng, client_buf, calls, source, wlog, test_prf>>

\* send_tls_alert after its write_alert returned r
alert_written(kind, r) ==
    [res |-> IF r.res = "Ok" THEN kind ELSE r.res, writer |-> r.writer, log |-> r.log]

\* TlsClient::send_tls_alert: [res = the error returned, writer, log]
send_tls_alert(w, kind, fail) ==
    IF kind = "IoFailure" THEN [res |-> kind, writer |-> w, log |-> <<>>]
    ELSE alert_written(kind, write_alert(w, from_tls_err(kind), fail))

\* the failures a send_tls_alert call can meet: none when it writes nothing
AlertFailures(kind) == IF kind = "IoFailure" THEN {<<0, NoFail>>} ELSE WriteFailures

\* new returns the error a that send_tls_alert returned
AlertSent(a) ==
    /\ writer' = a.writer
    /\ wlog' = wlog \o a.log
    /\ result' = a.res
    /\ pc' = "returned"

\* client.rs 36-39: handshake() failed; send_tls_alert, then new returns Err
SendTlsAlert ==
    /\ pc = "failed"
    /\ \E f \in AlertFailures(err) : AlertSent(send_tls_alert(writer, err, f))
    /\ UNCHANGED <<reader, hs, err, rng, client_buf, calls, source, rlog, mlog, wire_hs, test_prf>>

----------------------------------------------------------------------------
(* The session after TlsClient::new returned Ok *)

\* what the application writes
AppData == {<<>>, <<5>>, <<5, 6>>}

\* the positions of the caller in which the TlsClient exists and can be called
Usable == {"open", "closed"}

\* one entry of the history of calls: the operation, its argument (the bytes
\* to write, or len = the length of the buffer to read into), what it returned
\* (res = "Ok", "Err" or "Panic", and the count n of an Ok), the TlsErrorKind
\* that arose inside the call, the bytes a read handed out, and the entries
\* from+1..to of wlog (write, close) or rlog (read) the call made
Call(op, data, len, res, error, n, from, to) ==
    [op |-> op, data |-> data, len |-> len, res |-> res, err |-> error, n |-> n,
     from |-> from, to |-> to]

\* write_all after write_application_data returned w: send_tls_alert on an error
AppDataWritten(w) ==
    IF w.res = "Ok" \/ w.res = "Panic"
    THEN /\ writer' = w.writer
         /\ wlog' = wlog \o w.log
         /\ pc' = IF w.res = "Panic" THEN "panicked" ELSE pc
    ELSE /\ writer' = send_tls_alert(w.writer, w.res, <<0, NoFail>>).writer
         /\ wlog' = wlog \o w.log \o send_tls_alert(w.writer, w.res, <<0, NoFail>>).log
         /\ pc' = pc

\* Write::write that returns the number of records written
write_returned_records(data, w) ==
    /\ AppDataWritten(w)
    /\ calls' = Append(calls, Call("write", data, Len(data),
                                   IF w.res \in {"Ok", "Panic"} THEN w.res ELSE "Err",
                                   IF w.res \in {"Ok", "Panic"} THEN "None" ELSE w.res,
                                   IF w.res = "Ok" THEN Len(w.log) ELSE 0,
                                   Len(wlog), Len(wlog')))

\* Write::write of TlsClient: Ok(buf.len()) after write_all, or its error
write_returned(data, w) ==
    /\ AppDataWritten(w)
    /\ calls' = Append(calls, Call("write", data, Len(data),
                                   IF w.res \in {"Ok", "Panic"} THEN w.res ELSE "Err",
                                   IF w.res \in {"Ok", "Panic"} THEN "None" ELSE w.res,
                                   IF w.res = "Ok" THEN Len(data) ELSE 0,
                                   Len(wlog), Len(wlog')))

\* Write::write and Write::write_all of TlsClient
ClientWrite ==
    /\ pc \in Usable
    /\ Len(wlog) < MaxWrites
    /\ Len(calls) < MaxCalls
    /\ \E data \in AppData, f \in WriteFailures :
        write_returned(data, write_application_data(writer, data, f))
    /\ UNCHANGED <<reader, hs, err, result, rng, client_buf, source, rlog, mlog, wire_hs, test_prf>>

CloseWritten(w) ==
    /\ writer' = w.writer
    /\ wlog' = wlog \o w.log
    /\ pc' = IF w.res = "Ok" THEN "closed" ELSE pc
    /\ calls' = Append(calls, Call("close", <<>>, 0, IF w.res = "Ok" THEN "Ok" ELSE "Err",
                                   IF w.res = "Ok" THEN "None" ELSE w.res, 0,
                                   Len(wlog), Len(wlog')))

\* TlsClient::close: a fatal close_notify alert
ClientClose ==
    /\ pc \in Usable
    /\ Len(wlog) < MaxWrites
    /\ Len(calls) < MaxCalls
    /\ \E f \in WriteFailures :
        CloseWritten(write_alert(writer, [level |-> fatal, description |-> close_notify], f))
    /\ UNCHANGED <<reader, hs, err, result, rng, client_buf, source, rlog, mlog, wire_hs, test_prf>>

RECURSIVE read_application_data(_, _, _, _)
\* the match of read_application_data on the message m that read_message
\* returned; `rest` is what the transport still holds
application_data_read(m, rest, log, msgs) ==
    IF m.res # "Ok"
    THEN [res |-> m.res, reader |-> m.reader, data |-> <<>>, log |-> log \o m.log, msgs |-> msgs]
    ELSE CASE m.msg.kind = "ApplicationData" ->
                [res |-> "Ok", reader |-> m.reader, data |-> m.msg.data,
                 log |-> log \o m.log, msgs |-> Append(msgs, m.msg)]
           [] m.msg.kind = "Pending" ->
                read_application_data(m.reader, rest, log \o m.log, msgs)
           [] OTHER ->
                [res |-> "Panic", reader |-> m.reader, data |-> <<>>,
                 log |-> log \o m.log, msgs |-> Append(msgs, m.msg)]

\* TlsReader::read_application_data on a transport that holds the records of
\* `stream` and then fails: [res, reader, data, log = the records read,
\* msgs = the messages read_message returned]
read_application_data(r, stream, log, msgs) ==
    IF r.decryptor = None
    THEN [res |-> "Panic", reader |-> r, data |-> <<>>, log |-> log, msgs |-> msgs]
    ELSE application_data_read(read_message(r, IF Len(stream) = 0 THEN <<>> ELSE Head(stream)),
                               IF Len(stream) = 0 \/ BufferHasMessage(r) THEN stream
                               ELSE Tail(stream),
                               log, msgs)

\* the state of a Read::read call between two turns of its loop
ReadState(res, r, buf, pos, out, log, msgs, error) ==
    [res |-> res, reader |-> r, buf |-> buf, pos |-> pos, out |-> out, log |-> log,
     msgs |-> msgs, err |-> error]

RECURSIVE client_read(_, _, _)
\* the second half of a turn: copy_memory out of self.buf
\* a copy that throws away what did not fit into the buffer of the caller
copied_dropping_rest(s, len, stream) ==
    client_read([s EXCEPT !.out = @ \o Take(s.buf, Min(len - s.pos, Len(s.buf))),
                          !.pos = @ + Min(len - s.pos, Len(s.buf)),
                          !.buf = <<>>],
                len, stream)

copied(s, len, stream) ==
    client_read([s EXCEPT !.out = @ \o Take(s.buf, Min(len - s.pos, Len(s.buf))),
                          !.pos = @ + Min(len - s.pos, Len(s.buf)),
                          !.buf = Drop(@, Min(len - s.pos, Len(s.buf)))],
                len, stream)

\* the first half of a turn when self.buf is empty: a = what
\* read_application_data returned; an error ends the loop
refilled(s, a, len, stream) ==
    IF a.res = "Panic"
    THEN ReadState("Panic", a.reader, s.buf, s.pos, s.out, s.log \o a.log, s.msgs \o a.msgs, "None")
    ELSE IF a.res # "Ok"
    THEN ReadState("Ok", a.reader, s.buf, s.pos, s.out, s.log \o a.log, s.msgs \o a.msgs, a.res)
    ELSE copied(ReadState("Ok", a.reader, a.data, s.pos, s.out, s.log \o a.log,
                          s.msgs \o a.msgs, "None"),
                len, Drop(stream, Len(a.log)))

\* Read::read of TlsClient into a buffer of length len, from the state s
client_read(s, len, stream) ==
    IF s.pos >= len THEN s
    ELSE IF Len(s.buf) = 0
    THEN refilled(s, read_application_data(s.reader, stream, <<>>, <<>>), len, stream)
    ELSE copied(s, len, stream)

\* the lengths of the buffers the application reads into
ReadLens == {0, 1, 3}

\* a record of a peer that holds the key and puts the version (major, minor) in
\* the header and in the associated data alike
EncVersion(key, seq, ty, major, minor, plain) ==
    Rec(ty, major, minor,
        aead_encrypt(key, u64_be_array(seq), plain,
                     record_ad(u64_be_array(seq), ty, major, minor, Len(plain))))

\* what the peer may have sent when the application reads: records under the
\* key and from the sequence number the reader expects
SessionStreams(key, seq) ==
    {<<>>,
     <<Enc(key, seq, ApplicationDataTy, <<1, 2>>)>>,
     <<Enc(key, seq, ApplicationDataTy, <<1, 2>>), Enc(key, seq + 1, ApplicationDataTy, <<3>>)>>,
     <<Enc(key, seq, ApplicationDataTy, <<>>), Enc(key, seq + 1, ApplicationDataTy, <<3>>)>>,
     <<Enc(key, seq, AlertTy, <<warning, close_notify>>)>>,
     <<Flip(Enc(key, seq, ApplicationDataTy, <<1, 2>>), 6)>>,
     <<Enc(key, seq, HandshakeTy, HELLO_REQ)>>,
     <<Enc(key, seq, ChangeCipherSpecTy, <<1>>)>>,
     <<Enc(key, seq, ChangeCipherSpecTy, <<2>>)>>,
     <<<<ApplicationDataTy, 3, 3, 255, 255>>>>,
     <<EncVersion(key, seq, ApplicationDataTy, 3, 1, <<4>>)>>}

\* the history of a Read::read call that ended in the state s
ReadReturned(s, len) ==
    /\ reader' = s.reader
    /\ client_buf' = s.buf
    /\ rlog' = rlog \o s.log
    /\ mlog' = mlog \o [i \in 1..Len(s.msgs) |-> [at |-> pc, kind |-> s.msgs[i].kind, ty |-> 255]]
    /\ pc' = IF s.res = "Panic" THEN "panicked" ELSE pc
    /\ calls' = Append(calls, Call("read", s.out, len, s.res, s.err,
                                   IF s.res = "Ok" THEN s.pos ELSE 0, Len(rlog), Len(rlog')))

\* Read::read of TlsClient
ClientRead ==
    /\ pc \in Usable
    /\ Len(calls) < MaxCalls
    /\ \E len \in ReadLens,
          stream \in (IF reader.decryptor = None THEN {<<>>}
                      ELSE SessionStreams(reader.decryptor[1], reader.read_count)) :
        ReadReturned(client_read(ReadState("Ok", reader, client_buf, 0, <<>>, <<>>, <<>>, "None"),
                                 len, stream), len)
    /\ UNCHANGED <<writer, hs, err, result, rng, source, wlog, wire_hs, test_prf>>

\* a caller of the public writer field activates a cipher again
SetEncryptorAgain ==
    /\ pc = "open"
    /\ writer' = set_encryptor(writer, Rep(KEY_LEN, 0)).writer
    /\ pc' = IF set_encryptor(writer, Rep(KEY_LEN, 0)).res = "Panic" THEN "panicked" ELSE pc
    /\ UNCHANGED <<reader, hs, err, result, rng, client_buf, calls, source, wlog, rlog, mlog, wire_hs, test_prf>>

\* a caller of the public reader field activates a cipher again
SetDecryptorAgain ==
    /\ pc = "open"
    /\ reader' = set_decryptor(reader, Rep(KEY_LEN, 0)).reader
    /\ pc' = IF set_decryptor(reader, Rep(KEY_LEN, 0)).res = "Panic" THEN "panicked" ELSE pc
    /\ UNCHANGED <<writer, hs, err, result, rng, client_buf, calls, source, wlog, rlog, mlog, wire_hs, test_prf>>

Next ==
    \/ WriteClientHello
    \/ ExpectServerHello
    \/ ExpectCertificate
    \/ ExpectServerKeyExchange
    \/ ExpectServerHelloDone
    \/ WriteClientKeyExchange
    \/ WriteChangeCipherSpec
    \/ InstallEncryptor
    \/ WriteFinished
    \/ ReadChangeCipherSpec
    \/ InstallDecryptor
    \/ ExpectFinished
    \/ SendTlsAlert
    \/ ClientWrite
    \/ ClientClose
    \/ SetEncryptorAgain
    \/ SetDecryptorAgain

Spec == Init /\ [][Next]_vars

\* a handshake with a server that follows the protocol over a transport that
\* does not fail: one message in each record, nothing left out or added
Honest ==
    /\ pc \notin {"failed", "returned", "panicked"}
    /\ Len(mlog) = Len(rlog)
    /\ \A i \in 1..Len(wlog) : wlog[i].res = "Ok"
    /\ Len(wire_hs) >= 2 => wire_hs[2] = SH_ok

\* the session that follows such a handshake: the application writes, reads
\* and closes in any order
SessionNext ==
    \/ WriteClientHello /\ Honest'
    \/ ExpectServerHello /\ Honest'
    \/ ExpectCertificate /\ Honest'
    \/ ExpectServerKeyExchange /\ Honest'
    \/ ExpectServerHelloDone /\ Honest'
    \/ WriteClientKeyExchange /\ Honest'
    \/ WriteChangeCipherSpec /\ Honest'
    \/ InstallEncryptor /\ Honest'
    \/ WriteFinished /\ Honest'
    \/ ReadChangeCipherSpec /\ Honest'
    \/ InstallDecryptor /\ Honest'
    \/ ExpectFinished /\ Honest'
    \/ ClientWrite
    \/ ClientRead
    \/ ClientClose

Session == Init /\ [][SessionNext]_vars

----------------------------------------------------------------------------
(* The record layer alone: a TlsWriter and a TlsReader over transports in   *)
(* memory, the way the tests of tls.rs and test.rs drive them               *)

\* the key of both directions when a cipher is installed
PipeKey == Rep(KEY_LEN, 9)

\* the least element of a non-empty set of numbers
Least(S) == CHOOSE x \in S : \A y \in S : x <= y

RECURSIVE Pieces(_, _, _)
\* the pieces of stream after position `from` when it is cut at the positions of S
Pieces(stream, S, from) ==
    IF {c \in S : c > from} = {} THEN <<Drop(stream, from)>>
    ELSE <<SubSeq(stream, from + 1, Least({c \in S : c > from}))>>
         \o Pieces(stream, S, Least({c \in S : c > from}))

\* every way of cutting stream into non-empty pieces in at most MaxCuts places
Cuts(stream) ==
    {Pieces(stream, S, 0) :
        S \in {T \in SUBSET (1..(Len(stream) - 1)) : Cardinality(T) <= MaxCuts}}

\* streams of handshake messages a peer sends
HandshakeStreams == {CERT \o SHD, SHD \o CERT \o HELLO_REQ}

\* a script is what a peer sends: a list of <<content type, plaintext fragment>>;
\* these are the handshake streams, cut into Handshake records
HandshakeScripts ==
    {[i \in 1..Len(c) |-> <<HandshakeTy, c[i]>>] :
        c \in UNION {Cuts(stream) : stream \in HandshakeStreams}}

\* a record of another type between the two halves of a handshake message
InterleavedScripts ==
    {<<<<HandshakeTy, Take(CERT, n)>>, other, <<HandshakeTy, Drop(CERT, n)>>>> :
        n \in {3, 6},
        other \in {<<ChangeCipherSpecTy, <<1>>>>, <<AlertTy, <<warning, close_notify>>>>,
                   <<ApplicationDataTy, <<1, 2>>>>}}

\* records with an empty fragment, alone and inside a handshake message
EmptyScripts ==
    {<<<<ty, <<>>>>, <<HandshakeTy, SHD>>>> : ty \in ContentType}
    \cup {<<<<HandshakeTy, Take(CERT, 3)>>, <<ty, <<>>>>, <<HandshakeTy, Drop(CERT, 3)>>>> :
            ty \in ContentType}

\* fragments of Alert records: one byte, a whole alert, a level and a
\* description that are not enumerated
AlertFragments ==
    {<<fatal>>, <<close_notify>>, <<fatal, close_notify>>, <<3, close_notify>>, <<fatal, 1>>}

\* two Alert records one after the other
AlertScripts == {<<<<AlertTy, a>>, <<AlertTy, b>>>> : a, b \in AlertFragments}

\* content-type bytes that are not enumerated; 24 is Heartbeat
UnknownTypes == {0, 19, 24, 255}

\* a record of a content type that is not enumerated, after a record that is read
UnknownScripts == {<<<<ApplicationDataTy, <<7>>>>, <<ty, <<1>>>>>> : ty \in UnknownTypes}

\* records whose plaintext is as long as allowed, and one byte longer
LongScripts ==
    {<<<<ApplicationDataTy, Rep(n, 1)>>, <<ApplicationDataTy, <<7>>>>>> :
        n \in {RECORD_MAX_LEN, RECORD_MAX_LEN + 1}}

PeerScripts ==
    HandshakeScripts \cup InterleavedScripts \cup EmptyScripts \cup LongScripts
    \cup AlertScripts \cup UnknownScripts

\* the bytes of a script sent in the clear
Clear(script) ==
    Concat([i \in 1..Len(script) |-> Rec(script[i][1], 3, 3, script[i][2])])

\* the bytes of a script sent under the key, the sequence numbers from 0
Protected(script, key) ==
    Concat([i \in 1..Len(script) |-> Enc(key, i - 1, script[i][1], script[i][2])])

\* headers that announce more than a record may hold, with bytes after them,
\* a record of the greatest length a header may announce, and a cut-off record
RawScripts ==
    {<<ty, 3, 3>> \o write_be_u16(n) \o <<1, 2, 3>> :
        ty \in {HandshakeTy, ApplicationDataTy}, n \in {ENC_RECORD_MAX_LEN + 1, 65535}}
    \cup {Rec(ApplicationDataTy, 3, 3, Rep(ENC_RECORD_MAX_LEN, 1)) \o Rec(ApplicationDataTy, 3, 3, <<7>>),
          <<ApplicationDataTy, 3, 3, 0, 4, 1>>, <<24, 3, 3, 0, 1, 1>>, <<>>}

\* what the transport of the reader may hold at the start
Scripts ==
    {Clear(script) : script \in PeerScripts}
    \cup {Protected(script, PipeKey) : script \in PeerScripts}
    \cup RawScripts

\* a TlsWriter and a TlsReader just built, the reader's transport filled
RecordsInit ==
    /\ pc = "records"
    /\ writer = TlsWriter_new
    /\ reader = TlsReader_new
    /\ hs = NoHandshake
    /\ err = "None"
    /\ result = "None"
    /\ rng = [seed |-> 1, draws |-> 0]
    /\ client_buf = <<>>
    /\ calls = <<>>
    /\ source \in Scripts
    /\ wlog = <<>>
    /\ rlog = <<>>
    /\ mlog = <<>>
    /\ wire_hs = <<>>
    /\ test_prf = None

\* set_encryptor and set_decryptor with the same key, before any record
InstallCiphers ==
    /\ pc \in {"records", "counting", "channel"}
    /\ writer.encryptor = None /\ reader.decryptor = None
    /\ wlog = <<>> /\ rlog = <<>> /\ calls = <<>>
    /\ writer' = set_encryptor(writer, PipeKey).writer
    /\ reader' = set_decryptor(reader, PipeKey).reader
    /\ UNCHANGED <<pc, hs, err, result, rng, client_buf, calls, source, wlog, rlog, mlog, wire_hs, test_prf>>

\* what is written through write_data: without a cipher any length as any
\* content type, with a cipher the long data as application data only
PipeData(w, ty) ==
    {<<>>, <<7>>}
    \cup (IF w.encryptor = None \/ ty = ApplicationDataTy
          THEN {Rep(RECORD_MAX_LEN, 1), Rep(RECORD_MAX_LEN + 200, 1)} ELSE {})
    \cup (IF w.encryptor = None THEN {Rep(2 * RECORD_MAX_LEN + 1, 1)} ELSE {})

\* write_data returned w; what it wrote is what the reader's transport holds
PipeWritten(ty, data, w) ==
    /\ writer' = w.writer
    /\ wlog' = wlog \o w.log
    /\ source' = source \o Drop(w.writer.sink, Len(writer.sink))
    /\ calls' = Append(calls, Call("write_data", <<ty, data>>, Len(data),
                                   IF w.res = "Ok" THEN "Ok" ELSE "Err", "None", 0,
                                   Len(wlog), Len(wlog')))

\* TlsWriter::write_data into the transport the reader reads from
PipeWrite ==
    /\ pc = "records"
    /\ source = <<>> /\ wlog = <<>> /\ rlog = <<>> /\ calls = <<>>
    /\ \E ty \in ContentType :
        \E data \in PipeData(writer, ty) :
                PipeWritten(ty, data, write_data(writer, ty, data, <<0, NoFail>>))
    /\ UNCHANGED <<pc, reader, hs, err, result, rng, client_buf, rlog, mlog, wire_hs, test_prf>>

\* how many bytes read_record takes from a transport that holds src
record_taken(src) ==
    IF Len(src) < 1 THEN 0
    ELSE IF src[1] \notin ContentType THEN 1
    ELSE IF Len(src) < 5 THEN Len(src)
    ELSE IF be_u16(src, 4) > ENC_RECORD_MAX_LEN THEN 5
    ELSE Min(Len(src), 5 + be_u16(src, 4))

\* a turn of read_message gave m and took `taken` bytes from the transport
PipeRead(m, taken) ==
    /\ Received(m)
    /\ reader' = m.reader
    /\ source' = Drop(source, taken)
    /\ calls' = IF returns(m)
                THEN Append(calls, Call("read_message", m.msg, 0,
                                        IF m.res \in {"Ok", "Panic"} THEN m.res ELSE "Err",
                                        IF m.res \in {"Ok", "Panic"} THEN "None" ELSE m.res,
                                        0, Len(rlog), Len(rlog')))
                ELSE calls
    /\ pc' = IF m.res = "Panic" THEN "panicked" ELSE pc

\* TlsReader::read_message, one turn of its loop, while the transport holds bytes
ReadMessage ==
    /\ pc = "records"
    /\ source # <<>> \/ BufferHasMessage(reader)
    /\ PipeRead(read_message(reader, Take(source, record_taken(source))),
                IF BufferHasMessage(reader) THEN 0 ELSE record_taken(source))
    /\ UNCHANGED <<writer, hs, err, result, rng, client_buf, wlog, test_prf>>

RecordsNext ==
    \/ InstallCiphers
    \/ PipeWrite
    \/ ReadMessage

Records == RecordsInit /\ [][RecordsNext]_vars

----------------------------------------------------------------------------
(* The record counters: a TlsWriter and a TlsReader, with or without the    *)
(* ciphers, that exchange records until the counters have gone past their   *)
(* greatest value                                                           *)

\* a TlsWriter and a TlsReader just built, the transport between them empty
CountersInit ==
    /\ pc = "counting"
    /\ writer = TlsWriter_new
    /\ reader = TlsReader_new
    /\ hs = NoHandshake
    /\ err = "None"
    /\ result = "None"
    /\ rng = [seed |-> 1, draws |-> 0]
    /\ client_buf = <<>>
    /\ calls = <<>>
    /\ source = <<>>
    /\ wlog = <<>>
    /\ rlog = <<>>
    /\ mlog = <<>>
    /\ wire_hs = <<>>
    /\ test_prf = None

\* write_record returned w on a build with overflow checks (checks) or
\* without: the panic of `write_count += 1` comes after the record is written
SeqWritten(w, checks) ==
    /\ wlog' = wlog \o w.log
    /\ source' = source \o Drop(w.writer.sink, Len(writer.sink))
    /\ writer' = IF checks /\ overflows(writer.write_count, w.res)
                 THEN [w.writer EXCEPT !.write_count = writer.write_count]
                 ELSE w.writer
    /\ pc' = IF checks /\ overflows(writer.write_count, w.res) THEN "panicked" ELSE pc

\* TlsWriter::write_data of one record of application data
SeqWrite ==
    /\ pc = "counting"
    /\ Len(wlog) <= SeqModulus
    /\ \E checks \in BOOLEAN :
          SeqWritten(write_data(writer, ApplicationDataTy, <<7>>, <<0, NoFail>>), checks)
    /\ UNCHANGED <<reader, hs, err, result, rng, client_buf, calls, rlog, mlog, wire_hs, test_prf>>

\* read_message returned m on a build with overflow checks (checks) or
\* without: the panic of `read_count += 1` comes before the record is returned
SeqReceived(m, checks) ==
    /\ Received(m)
    /\ source' = Drop(source, record_taken(source))
    /\ reader' = IF checks /\ overflows(reader.read_count, m.log[1].res) THEN reader
                 ELSE m.reader
    /\ pc' = IF checks /\ overflows(reader.read_count, m.log[1].res) THEN "panicked" ELSE pc

\* TlsReader::read_message of the next record the transport holds
SeqRead ==
    /\ pc = "counting"
    /\ source # <<>>
    /\ \E checks \in BOOLEAN :
          SeqReceived(read_message(reader, Take(source, record_taken(source))), checks)
    /\ UNCHANGED <<writer, hs, err, result, rng, client_buf, calls, wlog, test_prf>>

\* the encryptor of test_writer_too_long: it holds no key, and what its encrypt
\* returns is for its author to choose
TestEnc == <<>>

\* the lengths of what it returns: a short fragment, the longest that
\* write_record lets through, and the one of the test
EncLens == {MAC_LEN + 1, ENC_RECORD_MAX_LEN, ENC_RECORD_MAX_LEN + 1}

\* rw.set_encryptor(Box::new(Enc)) on a new writer
InstallTestEncryptor ==
    /\ pc = "counting"
    /\ writer.encryptor = None /\ wlog = <<>> /\ rlog = <<>>
    /\ writer' = set_encryptor(writer, TestEnc).writer
    /\ pc' = "test_writer"
    /\ UNCHANGED <<reader, hs, err, result, rng, client_buf, calls, source, wlog, rlog, mlog,
                   wire_hs, test_prf>>

\* rw.write_record(Record::new(ApplicationDataTy, 3, 3, vec![1])) with the
\* encryptor returning n zeros
TestWrite ==
    /\ pc = "test_writer"
    /\ Len(wlog) < MaxCalls
    /\ \E n \in EncLens :
          LET record == Record_new(ApplicationDataTy, 3, 3, <<1>>)
              w == record_written(writer, record, NoFail, u64_be_array(writer.write_count),
                                  write_ad(writer, record), Rep(n, 0))
          IN  /\ writer' = w.writer
              /\ wlog' = wlog \o w.log
              /\ pc' = IF w.res = "Panic" THEN "panicked" ELSE pc
    /\ UNCHANGED <<reader, hs, err, result, rng, client_buf, calls, source, rlog, mlog, wire_hs,
                   test_prf>>

CountersNext ==
    \/ InstallCiphers
    \/ SeqWrite
    \/ SeqRead
    \/ InstallTestEncryptor
    \/ TestWrite

Counters == CountersInit /\ [][CountersNext]_vars

----------------------------------------------------------------------------
(* A TlsWriter and a TlsReader with the same key, and between them a        *)
(* network that hands the reader any of the records written, in any order,  *)
(* any number of times, as written or with its header changed               *)

ChannelInit ==
    /\ pc = "channel"
    /\ writer = TlsWriter_new
    /\ reader = TlsReader_new
    /\ hs = NoHandshake
    /\ err = "None"
    /\ result = "None"
    /\ rng = [seed |-> 1, draws |-> 0]
    /\ client_buf = <<>>
    /\ calls = <<>>
    /\ source = <<>>
    /\ wlog = <<>>
    /\ rlog = <<>>
    /\ mlog = <<>>
    /\ wire_hs = <<>>
    /\ test_prf = None

\* the application data written
ChannelData == {<<7>>, <<8, 9>>}

\* no more records are written than the reader can be handed
MaxSent == MaxDelivered

\* the record of the k-th write_record call as it is on the wire
Sent(k) == Rec(wlog[k].content_type, TLS_VERSION[1], TLS_VERSION[2], wlog[k].wire)

\* what the network makes of a record: the record itself, the record under
\* another content type, under another version, or cut by its last byte
Altered(rec) ==
    {rec,
     [rec EXCEPT ![1] = HandshakeTy],
     [rec EXCEPT ![3] = 1],
     Take(rec, 3) \o write_be_u16(Len(rec) - 6) \o SubSeq(rec, 6, Len(rec) - 1)}

\* write_data returned w
ChannelWritten(w) ==
    /\ writer' = w.writer
    /\ wlog' = wlog \o w.log

\* TlsWriter::write_data(ApplicationDataTy, data)
ChannelWrite ==
    /\ pc = "channel" /\ writer.encryptor # None
    /\ Len(wlog) < MaxSent
    /\ \E data \in ChannelData :
          ChannelWritten(write_data(writer, ApplicationDataTy, data, <<0, NoFail>>))
    /\ UNCHANGED <<pc, reader, hs, err, result, rng, client_buf, calls, source, rlog, mlog, wire_hs,
                   test_prf>>

\* the network hands the reader one of the records written
Deliver ==
    /\ pc = "channel" /\ source = <<>>
    /\ Len(rlog) < MaxDelivered
    /\ \E k \in 1..Len(wlog) : \E rec \in Altered(Sent(k)) : source' = rec
    /\ UNCHANGED <<pc, writer, reader, hs, err, result, rng, client_buf, calls, wlog, rlog, mlog,
                   wire_hs, test_prf>>

\* TlsReader::read_message on the record handed over
ChannelRead ==
    /\ pc = "channel" /\ source # <<>>
    /\ PipeRead(read_message(reader, Take(source, record_taken(source))), record_taken(source))
    /\ UNCHANGED <<writer, hs, err, result, rng, client_buf, wlog, test_prf>>

ChannelNext ==
    \/ InstallCiphers
    \/ ChannelWrite
    \/ Deliver
    \/ ChannelRead

Channel == ChannelInit /\ [][ChannelNext]_vars

----------------------------------------------------------------------------
(* The library functions called on their own, the way the unit tests of     *)
(* handshake.rs, prf.rs and chacha20_poly1305.rs call them                  *)

\* the item types read and written
CodecTypes ==
    {"Handshake", "ServerHello", "CipherSuite", "CompressionMethod", "ProtocolVersion",
     "SessionId", "ExtensionVec", "CertificateList", "EcdheServerKeyExchange", "VerifyData",
     "Alert"}

\* the ClientHello of test_parse_client_hello
TestClientHello ==
    new_client_hello(Rep(32, 0), TLS_ECDHE_RSA_WITH_CHACHA20_POLY1305_SHA256, <<>>)

\* a certificate list whose length field says 5 and whose one certificate takes 6
CertListOverrun == <<0, 0, 5, 0, 0, 3, 1, 2, 3>>

\* a certificate list whose one certificate has no bytes
CertListEmptyCert == <<0, 0, 3, 0, 0, 0>>

\* byte strings handed to tls_read: handshake messages, among them a
\* ServerHelloDone whose length field says 5, bodies, and short items
CodecBytes ==
    {SH_ok, SH_ext, SH_trail, SH_suite, CERT, SKX_ok, SHD, <<server_hello_done, 0, 0, 5>>,
     HELLO_REQ, CERT_REQ, FIN(Rep(12, 1)), tls_write("Handshake", TestClientHello),
     Drop(SH_ok, 4), Drop(SH_suite, 4), Drop(SKX_ok, 4), Drop(CERT, 4),
     <<204, 19>>, <<0, 47>>, <<3, 3>>, <<fatal, close_notify>>, <<0>>, <<>>,
     CertListOverrun, CertListEmptyCert, <<33>> \o Rep(33, 0), Rep(11, 1)}

\* values handed to tls_write
CodecValues ==
    {<<"Handshake", TestClientHello>>,
     <<"Handshake", ClientHelloOf(Rep(32, 1))>>,
     <<"Handshake", new_client_key_exchange(tls_write("EcData", ServerPoint))>>,
     <<"Handshake", new_finished(Rep(12, 1))>>,
     <<"Handshake", [ty |-> server_hello_done, body |-> <<>>]>>,
     <<"CipherSuite", TLS_ECDHE_RSA_WITH_CHACHA20_POLY1305_SHA256>>,
     <<"CipherSuite", UnknownCipherSuite>>,
     <<"ProtocolVersion", [major |-> 3, minor |-> 3]>>,
     <<"Alert", from_tls_err("DecodeError")>>,
     <<"SessionId", <<1, 2, 3>>>>}

\* the functions are called on their own: which, and on what
LibraryInit ==
    /\ pc \in {"codec", "aead", "prf", "p256", "compare"}
    /\ writer = TlsWriter_new
    /\ reader = TlsReader_new
    /\ hs = NoHandshake
    /\ err = "None"
    /\ result = "None"
    /\ rng = [seed |-> 1, draws |-> 0]
    /\ client_buf = <<>>
    /\ calls = <<>>
    /\ source \in IF pc = "codec" THEN CodecBytes ELSE {<<>>}
    /\ wlog = <<>>
    /\ rlog = <<>>
    /\ mlog = <<>>
    /\ wire_hs = <<>>
    /\ test_prf = None

\* what tls_write of the value v of type t returns: the one failure is the
\* UnknownCipherSuite, alone or as the suite of a ServerHello
item_write_res(t, v) ==
    IF \/ t = "CipherSuite" /\ v = UnknownCipherSuite
       \/ t = "ServerHello" /\ v.cipher_suite = UnknownCipherSuite
       \/ t = "Handshake" /\ tls_write_err(v)
    THEN "UnexpectedMessage" ELSE "Ok"

\* tls_read::<t> returned r from a reader that held source; data = the type,
\* the value and the bytes the reader gave out
ItemWasRead(t, r) ==
    /\ calls' = Append(calls, Call("tls_read",
                                   <<t, r.val, Take(source, Len(source) - Len(r.rest))>>, 0,
                                   IF r.res = "Ok" THEN "Ok" ELSE "Err",
                                   IF r.res = "Ok" THEN "None" ELSE r.res, 0, 0, 0))
    /\ source' = r.rest

\* TlsItem::tls_read, of any type from the bytes given, or of the type just
\* written from the bytes just written
ItemRead ==
    /\ pc = "codec"
    /\ \/ calls = <<>> /\ \E t \in CodecTypes : ItemWasRead(t, tls_read(t, source))
       \/ /\ Len(calls) = 1 /\ calls[1].op = "tls_write" /\ calls[1].res = "Ok"
          /\ ItemWasRead(calls[1].data[1], tls_read(calls[1].data[1], source))
    /\ UNCHANGED <<pc, writer, reader, hs, err, result, rng, client_buf, wlog, rlog, mlog, wire_hs, test_prf>>

\* v.tls_write(&mut packet) into an empty Vec; data = the type, the value and
\* the bytes in the Vec
ItemWasWritten(t, v) ==
    calls' = Append(calls, Call("tls_write", <<t, v, tls_write(t, v)>>, 0,
                                IF item_write_res(t, v) = "Ok" THEN "Ok" ELSE "Err",
                                IF item_write_res(t, v) = "Ok" THEN "None"
                                ELSE item_write_res(t, v), 0, 0, 0))

\* TlsItem::tls_write, of a value built by the caller, whose bytes a reader
\* is then given, or of the value just read
ItemWrite ==
    /\ pc = "codec"
    /\ \/ /\ calls = <<>> /\ source = <<>>
          /\ \E x \in CodecValues : ItemWasWritten(x[1], x[2]) /\ source' = tls_write(x[1], x[2])
       \/ /\ Len(calls) = 1 /\ calls[1].op = "tls_read" /\ calls[1].res = "Ok"
          /\ ItemWasWritten(calls[1].data[1], calls[1].data[2])
          /\ source' = source
    /\ UNCHANGED <<pc, writer, reader, hs, err, result, rng, client_buf, wlog, rlog, mlog, wire_hs, test_prf>>

\* keys, nonces, plaintexts and additional data handed to the AEAD
AeadKeys == {PipeKey, Rep(KEY_LEN, 1)}

AeadNonces == {u64_be_array(0), u64_be_array(1)}

AeadPlains == {<<>>, <<7>>, <<1, 2, 3>>}

AeadAds == {<<>>, <<1, 2, 3>>}

\* Encryptor::encrypt of a fresh ChaCha20Poly1305Encryptor; data = key, nonce,
\* plaintext, additional data and the ciphertext returned
Seal ==
    /\ pc = "aead" /\ calls = <<>>
    /\ \E key \in AeadKeys, nonce \in AeadNonces, data \in AeadPlains, ad \in AeadAds :
          /\ calls' = <<Call("encrypt", <<key, nonce, data, ad, aead_encrypt(key, nonce, data, ad)>>,
                             Len(data), "Ok", "None", 0, 0, 0)>>
          /\ source' = aead_encrypt(key, nonce, data, ad)
    /\ UNCHANGED <<pc, writer, reader, hs, err, result, rng, client_buf, wlog, rlog, mlog, wire_hs, test_prf>>

\* the ciphertext on its way: one bit of one byte, of the body or of the
\* tag, is flipped, or the bytes are cut below MAC_LEN
Tamper ==
    /\ pc = "aead" /\ Len(calls) = 1 /\ source = calls[1].data[5]
    /\ \/ \E i \in 1..Len(source), b \in 0..7 : source' = FlipBit(source, i, b)
       \/ \E n \in 0..(MAC_LEN - 1) : source' = Take(source, n)
    /\ UNCHANGED <<pc, writer, reader, hs, err, result, rng, client_buf, calls, wlog, rlog, mlog, wire_hs,
                   test_prf>>

\* Decryptor::decrypt returned r for the bytes that arrived
Opened(r) ==
    calls' = Append(calls, Call("decrypt", r.data, Len(source),
                                IF r.res = "Ok" THEN "Ok" ELSE "Err",
                                IF r.res = "Ok" THEN "None" ELSE r.res, 0, 0, 0))

\* Decryptor::decrypt of a fresh ChaCha20Poly1305Decryptor with the key, the
\* nonce and the additional data of the encryption
Open ==
    /\ pc = "aead" /\ Len(calls) = 1
    /\ Opened(aead_decrypt(calls[1].data[1], calls[1].data[2], source, calls[1].data[4]))
    /\ UNCHANGED <<pc, writer, reader, hs, err, result, rng, client_buf, source, wlog, rlog, mlog,
                   wire_hs, test_prf>>

\* int256::LIMBS: an Int256 is 8 limbs of 32 bits, v[0] the least significant
LIMBS == 8

\* the bounds of the two loops of Point256::mult_scalar
LadderLimbs == 7

LadderBits == 8

\* An Int256 is held as the 32 bytes Int256::from_bytes builds it from, most
\* significant first: v[LIMBS - 1 - i] is bytes 4i .. 4i + 3.
\* (n.v[i] >> j) & 1
limb_bit(n, i, j) ==
    (n[4 * (LIMBS - 1 - i) + (3 - (j \div 8)) + 1] \div (2 ^ (j % 8))) % 2

\* The points mult_scalar goes through are multiples of self; a multiple is
\* held as its binary numeral, most significant bit first, INFTY as the
\* empty numeral.  Point256::double of the multiple ret
point_double(ret) == Append(ret, 0)

\* Point256::add of self to the even multiple ret2
point_add_self(ret2) == [ret2 EXCEPT ![Len(ret2)] = 1]

\* Point256::choose
point_choose(flag, a, b) == IF flag = 0 THEN a ELSE b

\* the (i, j) of the iterations of mult_scalar, in the order of the loops:
\* for i in range(0, 7).rev() { for j in range(0, 8).rev() { .. } }
LadderSteps ==
    [k \in 1..(LadderLimbs * LadderBits) |->
        <<LadderLimbs - 1 - ((k - 1) \div LadderBits), LadderBits - 1 - ((k - 1) % LadderBits)>>]

RECURSIVE ladder(_, _, _)
\* the iterations of mult_scalar that are left, from the multiple ret (which no
\* iteration makes longer than the scalar)
ladder(n, steps, ret) ==
    IF steps = <<>> \/ Len(ret) >= 32 * LIMBS THEN ret
    ELSE LET bit == limb_bit(n, Head(steps)[1], Head(steps)[2])
             ret2 == point_double(ret)
             ret3 == point_add_self(ret2)
         IN  ladder(n, Tail(steps), point_choose(bit, ret2, ret3))

\* Point256::mult_scalar(n): the multiple of self returned
Point256_mult_scalar(n) == ladder(n, LadderSteps, <<>>)

\* the bits of n that mult_scalar looks at, in the order of the iterations, as
\* positions 0..255 from the least significant
LadderExamined ==
    [s \in 1..(LadderLimbs * LadderBits) |-> 32 * LadderSteps[s][1] + LadderSteps[s][2]]

\* the 32 bytes of the scalar that has the byte b at place i and 0 elsewhere
ScalarWith(i, b) == [Rep(4 * LIMBS, 0) EXCEPT ![i] = b]

\* scalars handed to mult_scalar: 0, 1, 2, 255, 2^8, 2^24, 2^32, 2^56, 2^255,
\* 2^256 - 1 and one with every byte different
Scalars ==
    {Rep(4 * LIMBS, 0), ScalarWith(32, 1), ScalarWith(32, 2), ScalarWith(32, 255),
     ScalarWith(31, 1), ScalarWith(29, 1), ScalarWith(28, 1), ScalarWith(25, 1),
     ScalarWith(1, 128), Rep(4 * LIMBS, 255), [i \in 1..(4 * LIMBS) |-> 7 * i]}

\* self.mult_scalar(&n); data = the scalar, the bits looked at, the multiple
MultScalar ==
    /\ pc = "p256" /\ calls = <<>>
    /\ \E scalar \in Scalars :
          calls' = <<Call("mult_scalar",
                          <<scalar, LadderExamined, Point256_mult_scalar(scalar)>>,
                          0, "Ok", "None", 0, 0, 0)>>
    /\ UNCHANGED <<pc, writer, reader, hs, err, result, rng, client_buf, source, wlog, rlog, mlog,
                   wire_hs, test_prf>>

\* secrets and seeds handed to Prf::new; test_get_bytes uses the empty ones
PrfSecrets == {<<>>, <<1, 2, 3>>}

PrfSeeds == {<<>>, <<4, 5>>}

\* sizes handed to get_bytes: those of test_get_bytes, and sizes around the
\* block length
PrfSizes == {0, 1, HASH_LEN - 1, HASH_LEN, 33, 34, 2 * HASH_LEN, 100}

\* let mut prf = Prf::new(secret, seed); let mut ret = Vec::new();
PrfNew ==
    /\ pc = "prf" /\ test_prf = None
    /\ \E secret \in PrfSecrets, seed \in PrfSeeds :
          test_prf' = Some([prf |-> Prf_new(secret, seed), ret |-> <<>>, size |-> 0])
    /\ UNCHANGED <<pc, writer, reader, hs, err, result, rng, client_buf, calls, source, wlog, rlog,
                   mlog, wire_hs>>

\* get_bytes returned r: ret.push_all(&prf.get_bytes(size)[])
PrfGot(r, size) ==
    test_prf' = Some([prf |-> r.prf, ret |-> test_prf[1].ret \o r.ret, size |-> size])

PrfGetBytes ==
    /\ pc = "prf" /\ test_prf # None
    /\ \E size \in PrfSizes :
          /\ Len(test_prf[1].ret) + size <= MaxPrfBytes
          /\ PrfGot(Prf_get_bytes(test_prf[1].prf, size), size)
    /\ UNCHANGED <<pc, writer, reader, hs, err, result, rng, client_buf, calls, source, wlog, rlog,
                   mlog, wire_hs>>

\* ---- Int256 and NPoint256::from_uncompressed_bytes (crypto/p256.rs) ----
\* An Int256 is kept as the 32 bytes of its 8 limbs, least significant first: a
\* limb of 32 bits does not fit the integers of the checker, and every operation
\* below gives the bytes of the limbs the source computes. The debug assertions
\* of reduce_once and sub are those of a debug build and are left out.

\* P256 = 2^256 - 2^224 + 2^192 + 2^96 - 1
P256 ==
    <<255, 255, 255, 255, 255, 255, 255, 255, 255, 255, 255, 255, 0, 0, 0, 0, 0, 0, 0, 0,
      0, 0, 0, 0, 1, 0, 0, 0, 255, 255, 255, 255>>

\* the coefficient B of the curve
B ==
    <<75, 96, 210, 39, 62, 60, 206, 59, 246, 176, 83, 204, 176, 6, 29, 101, 188, 134, 152,
      118, 85, 189, 235, 179, 231, 147, 58, 170, 216, 53, 198, 90>>

\* the coordinates of the base point G, as they are sent (most significant first)
BasePointX ==
    <<107, 23, 209, 242, 225, 44, 66, 71, 248, 188, 230, 229, 99, 164, 64, 242, 119, 3,
      125, 129, 45, 235, 51, 160, 244, 161, 57, 69, 216, 152, 194, 150>>

BasePointY ==
    <<79, 227, 66, 226, 254, 26, 127, 155, 142, 231, 235, 74, 124, 15, 158, 22, 43, 206,
      51, 87, 107, 49, 94, 206, 203, 182, 64, 104, 55, 191, 81, 245>>

\* e, the values in the sequence done being computed first: the checker computes
\* an operand when it is first looked at, inside the loops of another operation,
\* and this makes it follow the order of the statements of the source
in_order(done, e) == IF \A i \in DOMAIN done : done[i] = done[i] THEN e ELSE e

\* the word v[i] (i from 0) of a sequence of bytes
Word(v, i) == SubSeq(v, 4 * i + 1, 4 * i + 4)

RECURSIVE add_from(_, _, _, _)
\* the loop of add_no_reduce from the bytes acc done so far
add_from(a, b, carry, acc) ==
    IF Len(acc) = Len(a) THEN [v |-> acc, carry |-> carry]
    ELSE LET add == a[Len(acc) + 1] + b[Len(acc) + 1] + carry
         IN  add_from(a, b, add \div 256, Append(acc, add % 256))

\* Int256::add_no_reduce: self + b == v + 2^256 * carry
add_no_reduce(a, b) == add_from(a, b, 0, <<>>)

RECURSIVE sub_from(_, _, _, _)
\* the loop of sub_no_reduce from the bytes acc done so far
sub_from(a, b, carry_sub, acc) ==
    IF Len(acc) = Len(a) THEN [v |-> acc, carry |-> carry_sub]
    ELSE LET sub == a[Len(acc) + 1] - b[Len(acc) + 1] - carry_sub
         IN  sub_from(a, b, IF sub < 0 THEN 1 ELSE 0, Append(acc, sub % 256))

\* Int256::sub_no_reduce: self - b == v - 2^256 * carry
sub_no_reduce(a, b) == sub_from(a, b, 0, <<>>)

\* Int256::choose: a if flag is 0, b if it is 1
Int256_choose(flag, a, b) == IF flag = 0 THEN a ELSE b

\* Int256::compare: 0 if the limbs are the same, 1 otherwise
Int256_compare(a, b) == IF a = b THEN 0 ELSE 1

\* Int256::reduce_once: P256 is taken off once, unless that borrows and there
\* was no carry
reduce_once(a, carry) ==
    LET s == sub_no_reduce(a, P256)
    IN  Int256_choose(IF carry = s.carry THEN 0 ELSE 1, s.v, a)

\* Int256::add
Int256_add(a, b) ==
    LET s == add_no_reduce(a, b)
    IN  reduce_once(s.v, s.carry)

\* Int256::double
Int256_double(a) == Int256_add(a, a)

\* Int256::sub: P256 is added back if the difference borrowed
Int256_sub(a, b) ==
    LET s == sub_no_reduce(a, b)
    IN  Int256_choose(s.carry, s.v, add_no_reduce(s.v, P256).v)

RECURSIVE column(_, _, _, _, _)
\* the sum of the products a[i] * b[j] that fall on byte k of the product
column(a, b, k, i, acc) ==
    IF i > Len(a) \/ i > k THEN acc
    ELSE column(a, b, k, i + 1, acc + (IF k + 1 - i > Len(b) THEN 0 ELSE a[i] * b[k + 1 - i]))

RECURSIVE carried(_, _, _)
\* the bytes of a number given by its columns, carries moved up
carried(columns, carry, acc) ==
    IF Len(acc) = Len(columns) THEN acc
    ELSE LET c == columns[Len(acc) + 1] + carry
         IN  carried(columns, c \div 256, Append(acc, c % 256))

\* the 16 words v of the product in Int256::mult
product(a, b) == carried([k \in 1..(2 * Len(a)) |-> column(a, b, k, 1, 0)], 0, <<>>)

\* a buf of Int256::mult: word i of it is word words[i + 1] of v, or zero where
\* words[i + 1] is 16
buf_of(v, words) ==
    LET w(i) == IF words[i] = 16 THEN Rep(4, 0) ELSE Word(v, words[i])
    IN  w(1) \o w(2) \o w(3) \o w(4) \o w(5) \o w(6) \o w(7) \o w(8)

\* Int256::mult: the product, then the reduction t + 2 s1 + 2 s2 + s3 + s4 - d1 -
\* d2 - d3 - d4 of its 16 words
Int256_mult(a, b) ==
    LET v == product(a, b)
        term(words) == reduce_once(buf_of(v, words), 0)
        t == term(<<0, 1, 2, 3, 4, 5, 6, 7>>)
        s1 == term(<<16, 16, 16, 11, 12, 13, 14, 15>>)
        s2 == term(<<16, 16, 16, 12, 13, 14, 15, 16>>)
        s3 == term(<<8, 9, 10, 16, 16, 16, 14, 15>>)
        s4 == term(<<9, 10, 11, 13, 14, 15, 13, 8>>)
        d1 == term(<<11, 12, 13, 16, 16, 16, 8, 10>>)
        d2 == term(<<12, 13, 14, 15, 16, 16, 9, 11>>)
        d3 == term(<<13, 14, 15, 8, 9, 10, 16, 12>>)
        d4 == term(<<14, 15, 16, 9, 10, 11, 16, 13>>)
        r == Int256_add(Int256_add(Int256_add(Int256_add(t, Int256_double(s1)),
                                              Int256_double(s2)), s3), s4)
        d == Int256_add(Int256_add(Int256_add(d1, d2), d3), d4)
    IN  in_order(<<v, t, s1, s2, s3, s4, d1, d2, d3, d4, r, d>>, Int256_sub(r, d))

\* Int256::square
Int256_square(a) == Int256_mult(a, a)

\* Int256::from_bytes: None unless 32 bytes are given; no other check
Int256_from_bytes(b) ==
    IF Len(b) # 32 THEN None ELSE Some([i \in 1..32 |-> b[33 - i]])

\* NPoint256::from_uncompressed_bytes: None, or Some of the coordinates
NPoint256_from_uncompressed_bytes(data) ==
    IF Len(data) # 1 + 32 * 2 THEN None
    ELSE IF data[1] # 4 THEN None
    ELSE LET x == Int256_from_bytes(SubSeq(data, 2, 33))
             y == Int256_from_bytes(SubSeq(data, 34, 65))
         IN  IF x = None \/ y = None THEN None
             ELSE LET y2 == Int256_square(y[1])
                      lhs == Int256_add(y2, Int256_add(Int256_double(x[1]), x[1]))
                      x2 == Int256_square(x[1])
                      x3 == Int256_mult(x2, x[1])
                      rhs == Int256_add(x3, B)
                  IN  in_order(<<y2, lhs, x2, x3, rhs>>,
                               IF Int256_compare(lhs, rhs) # 0 THEN None
                               ELSE Some([x |-> x[1], y |-> y[1]]))

\* the Y of the two points of the curve whose X is 5, and whose X is 0: the smaller
\* root of 5^3 - 3 * 5 + B, and of B
RootAtFive ==
    <<69, 146, 67, 185, 170, 88, 24, 6, 254, 145, 59, 206, 153, 129, 122, 222, 17, 202,
      80, 60, 100, 217, 163, 197, 51, 65, 92, 8, 50, 72, 251, 204>>

RootAtZero ==
    <<102, 72, 92, 120, 14, 47, 131, 215, 36, 51, 189, 93, 132, 160, 107, 182, 84, 28, 42,
      243, 29, 174, 135, 23, 40, 191, 133, 106, 23, 79, 147, 244>>

\* the 32 bytes of P256 + n as they are sent, for n < 256
P256Plus(n) ==
    LET s == add_no_reduce(P256, <<n>> \o Rep(31, 0)).v
    IN  [i \in 1..32 |-> s[33 - i]]

\* the 32 bytes of n as they are sent, for n < 256
Small(n) == Rep(31, 0) \o <<n>>

\* what is handed to from_uncompressed_bytes: the base point, the point at X = 5,
\* the same point with P256 added to X, the point at X = 0 with X sent as P256,
\* a Y off by one, a leading byte that is not 4, and encodings of 64 and 66 bytes
PointEncodings ==
    {<<4>> \o BasePointX \o BasePointY,
     <<4>> \o Small(5) \o RootAtFive,
     <<4>> \o P256Plus(5) \o RootAtFive,
     <<4>> \o P256Plus(0) \o RootAtZero,
     <<4>> \o Small(5) \o Take(RootAtFive, 31) \o <<RootAtFive[32] + 1>>,
     <<2>> \o BasePointX \o BasePointY,
     <<4>> \o BasePointX \o Take(BasePointY, 31),
     <<4>> \o BasePointX \o BasePointY \o <<0>>}

\* NPoint256::from_uncompressed_bytes on its own; data = the bytes given and what
\* was returned
PointFromBytes ==
    /\ pc = "p256" /\ calls = <<>>
    /\ \E data \in PointEncodings :
          LET p == NPoint256_from_uncompressed_bytes(data)
          IN  calls' = <<Call("from_uncompressed_bytes", <<data, p>>, 0,
                              IF p = None THEN "None" ELSE "Some", "None", 0, 0, 0)>>
    /\ UNCHANGED <<pc, writer, reader, hs, err, result, rng, client_buf, source, wlog, rlog, mlog,
                   wire_hs, test_prf>>

\* ---- crypto_compare, statement by statement (util.rs) ----

RECURSIVE Or8Bits(_, _, _)
Or8Bits(a, b, n) ==
    IF n = 0 THEN 0
    ELSE (IF a % 2 = 1 \/ b % 2 = 1 THEN 1 ELSE 0) + 2 * Or8Bits(a \div 2, b \div 2, n - 1)

\* a | b on u8
Or8(a, b) == Or8Bits(a, b, 8)

RECURSIVE compare_loop_early_exit(_, _, _, _, _)
\* a loop that stops at the first byte that differs
compare_loop_early_exit(a, b, i, diff, steps) ==
    IF i >= Len(a) \/ diff # 0 THEN [diff |-> diff, steps |-> steps]
    ELSE compare_loop_early_exit(a, b, i + 1, Or8(diff, Xor8(a[i + 1], b[i + 1])),
                                 Append(steps, i))

RECURSIVE compare_loop(_, _, _, _, _)
\* `for i in (0..a.len()) { diff |= a[i] ^ b[i]; }` from iteration i on; steps =
\* the iterations done
compare_loop(a, b, i, diff, steps) ==
    IF i >= Len(a) THEN [diff |-> diff, steps |-> steps]
    ELSE compare_loop(a, b, i + 1, Or8(diff, Xor8(a[i + 1], b[i + 1])), Append(steps, i))

\* util::crypto_compare: what it returns and the iterations its loop made; after
\* the loop there is no branch
crypto_compare_run(a, b) ==
    LET l == compare_loop(a, b, 0, 0, <<>>)
        d1 == Or8(l.diff, l.diff \div 16)
        d2 == Or8(d1, d1 \div 4)
        d3 == Or8(d2, d2 \div 2)
        d4 == d3 % 2
    IN  [ret |-> d4 = 0, steps |-> l.steps]

\* the verify data compared with
CompareWith == [i \in 1..VERIFY_DATA_LEN |-> i]

\* a with the byte at i replaced by v
ByteSet(a, i, v) == [a EXCEPT ![i] = v]

\* the pairs compared: the same bytes, bytes that differ first at the first, at a
\* middle and at the last place, in the highest bit only, in bit 4 only, at two
\* places, and pairs of 0, 1 and 2 bytes
ComparePairs ==
    {<<CompareWith, CompareWith>>,
     <<CompareWith, ByteSet(CompareWith, 1, 0)>>,
     <<CompareWith, ByteSet(CompareWith, 6, 7)>>,
     <<CompareWith, ByteSet(CompareWith, VERIFY_DATA_LEN, 0)>>,
     <<CompareWith, ByteSet(CompareWith, 3, 131)>>,
     <<CompareWith, ByteSet(CompareWith, 3, 19)>>,
     <<CompareWith, ByteSet(ByteSet(CompareWith, 2, 0), 9, 0)>>,
     <<<<>>, <<>>>>,
     <<<<5>>, <<5>>>>,
     <<<<5>>, <<4>>>>,
     <<<<0, 0>>, <<0, 255>>>>}

\* crypto_compare called on its own, more than once; data = the two slices and
\* the iterations of the loop
Compare ==
    /\ pc = "compare" /\ Len(calls) < MaxCalls
    /\ \E pair \in ComparePairs :
          LET run == crypto_compare_run(pair[1], pair[2])
          IN  calls' = Append(calls, Call("crypto_compare", <<pair[1], pair[2], run.steps>>, 0,
                                          IF run.ret THEN "true" ELSE "false", "None", 0, 0, 0))
    /\ UNCHANGED <<pc, writer, reader, hs, err, result, rng, client_buf, source, wlog, rlog, mlog,
                   wire_hs, test_prf>>

LibraryNext ==
    \/ ItemRead
    \/ ItemWrite
    \/ Seal
    \/ Tamper
    \/ Open
    \/ PrfNew
    \/ PrfGetBytes
    \/ MultScalar
    \/ PointFromBytes
    \/ Compare

Library == LibraryInit /\ [][LibraryNext]_vars

----------------------------------------------------------------------------
(* Properties of the handshake *)

\* the states in which handshake() waits for a message
WaitStates == {"wait_sh", "wait_cert", "wait_skx", "wait_shd", "wait_ccs", "wait_sf"}

\* the message each waiting state accepts: <<kind, handshake type>>
ExpectedAt(at) ==
    CASE at = "wait_sh" -> <<"Handshake", server_hello>>
      [] at = "wait_cert" -> <<"Handshake", certificate>>
      [] at = "wait_skx" -> <<"Handshake", server_key_exchange>>
      [] at = "wait_shd" -> <<"Handshake", server_hello_done>>
      [] at = "wait_ccs" -> <<"ChangeCipherSpec", 255>>
      [] at = "wait_sf" -> <<"Handshake", finished>>

\* the messages read in the whole run, as <<kind, handshake type>>
MessagesRead == [i \in 1..Len(mlog) |-> <<mlog[i].kind, mlog[i].ty>>]

\* a message that is neither an alert nor the one its state accepts
OutOfOrder(e) == e.at \in WaitStates /\ e.kind # "Alert" /\ <<e.kind, e.ty>> # ExpectedAt(e.at)

\* C1: TlsClient::new returns Ok only after exactly ServerHello, Certificate,
\* ServerKeyExchange, ServerHelloDone, ChangeCipherSpec, Finished were read in
\* this order; any other message (not an alert) read in a waiting state is the
\* last one read, fails the handshake with UnexpectedMessage, and no session
\* is returned.
C1_MessageOrder ==
    /\ result = "Ok" =>
          SubSeq(MessagesRead, 1, 6) =
              <<ExpectedAt("wait_sh"), ExpectedAt("wait_cert"), ExpectedAt("wait_skx"),
                ExpectedAt("wait_shd"), ExpectedAt("wait_ccs"), ExpectedAt("wait_sf")>>
    /\ \A i \in 1..Len(mlog) :
          OutOfOrder(mlog[i]) =>
              /\ i = Len(mlog)
              /\ pc \in {"failed", "returned"}
              /\ err = "UnexpectedMessage"
              /\ result \in {"None", "UnexpectedMessage", "IoFailure"}

\* a handshake that succeeded after the six messages
C1_Witness == result = "Ok" /\ pc = "open" /\ Len(mlog) = 6

\* the verify data the server's Finished must carry: the PRF over the handshake
\* messages as they went over the wire, the client's Finished included
ExpectedServerVerifyData ==
    verify_data(hs.master_secret, label_server_finished, Concat(SubSeq(wire_hs, 1, 7)))

\* the server's Finished was read, and its verify data is not the expected one
WrongFinishedRead ==
    /\ Len(mlog) >= 6
    /\ mlog[6].at = "wait_sf"
    /\ mlog[6].ty = finished
    /\ Drop(wire_hs[8], 4) # ExpectedServerVerifyData

\* C2: when the verify data of the server's Finished differs from
\* PRF(master_secret, "server finished" ++ SHA-256(the transcript through the
\* client's Finished)), the handshake fails with DecryptError, new returns an
\* error and no session is ever returned.
C2_WrongFinishedFails ==
    WrongFinishedRead =>
        /\ pc \in {"failed", "returned"}
        /\ err = "DecryptError"
        /\ result \in {"None", "DecryptError", "IoFailure"}

\* what the comparison of handshake() does decide: a Finished that differs
\* from the PRF over the re-serialized messages fails with DecryptError, and
\* a failed handshake returns no session
FinishedComparedToReserialized ==
    [][/\ (/\ pc = "wait_sf"
           /\ Len(mlog') = 6
           /\ mlog'[6].ty = finished
           /\ Drop(wire_hs'[8], 4) # OwnVerifyData) =>
              pc' = "failed" /\ err' = "DecryptError" /\ result' = "None"
       /\ (pc = "failed" /\ err = "DecryptError") =>
              pc' = "returned" /\ result' \in {"DecryptError", "IoFailure"}
       /\ pc \in {"failed", "returned"} => result' # "Ok"]_vars

\* a record of the read history that carried the server's ChangeCipherSpec
IsChangeCipherSpec(e) == e.res = "Ok" /\ e.content_type = ChangeCipherSpecTy /\ ~e.encrypted

\* C3: the ClientHello, ClientKeyExchange and ChangeCipherSpec records are
\* written in the clear and the write cipher is installed only after the
\* ChangeCipherSpec was written; the client's Finished is the fourth record
\* written, the first encrypted one, under sequence number 0.  The read
\* cipher is installed only after the server's ChangeCipherSpec was read;
\* every record up to and including it is read in the clear, and the first
\* record after it, which carries the server's Finished, is decrypted under
\* sequence number 0.
C3_CipherActivation ==
    /\ \A i \in 1..Len(wlog) : i <= 3 => ~wlog[i].encrypted
    /\ writer.encryptor # None =>
          /\ Len(wlog) >= 3
          /\ wlog[1].plain[1] = client_hello /\ wlog[1].res = "Ok"
          /\ wlog[2].plain[1] = client_key_exchange /\ wlog[2].res = "Ok"
          /\ wlog[3].content_type = ChangeCipherSpecTy /\ wlog[3].res = "Ok"
    /\ Len(wlog) >= 4 =>
          /\ writer.encryptor # None
          /\ wlog[4].encrypted /\ wlog[4].count = 0
          /\ wlog[4].content_type = HandshakeTy /\ wlog[4].plain[1] = finished
          /\ wlog[4].wire # wlog[4].plain
    /\ reader.decryptor # None =>
          \E i \in 1..Len(rlog) :
              /\ IsChangeCipherSpec(rlog[i])
              /\ \A j \in 1..Len(rlog) : j <= i => ~rlog[j].encrypted
              /\ \A j \in 1..Len(rlog) : j > i => rlog[j].encrypted
              /\ Len(rlog) > i => rlog[i + 1].count = 0
    /\ reader.decryptor = None => \A i \in 1..Len(rlog) : ~rlog[i].encrypted
    /\ \A i \in 1..Len(mlog) :
          mlog[i].at = "wait_sf" => reader.decryptor # None /\ rlog[Len(rlog)].encrypted

\* the handshake is over: both Finished messages went under the ciphers
C3_Witness ==
    /\ pc = "open"
    /\ wlog[4].encrypted
    /\ rlog[Len(rlog)].encrypted
    /\ rlog[Len(rlog)].res = "Ok"

\* C4: the bytes hashed for the client's Finished are the handshake messages
\* ClientHello .. ClientKeyExchange as they were on the wire, and the bytes
\* hashed for the server's Finished are those followed by the client's
\* Finished as it was on the wire.
C4_TranscriptIsWire ==
    /\ Len(hs.msgs) > 0 => hs.msgs = Concat(SubSeq(wire_hs, 1, 6))
    /\ Len(hs.serv_msgs) > 0 => hs.serv_msgs = Concat(SubSeq(wire_hs, 1, 7))

----------------------------------------------------------------------------
(* Properties of the record layer *)

\* how many of the first n entries of a history are successes of the same
\* kind (protected or not) as entry n + 1 would be
Successes(log, n, encrypted) ==
    Cardinality({j \in 1..n : log[j].encrypted = encrypted /\ log[j].res = "Ok"})

\* the fragment of a record on the wire
FragmentOf(wire) == SubSeq(wire, 6, Len(wire))

\* the k-th write under a cipher put on the wire what sequence number k gives
WriteUsesSequence(encryptor, e, k) ==
    /\ e.count = k
    /\ e.nonce = u64_be_array(k)
    /\ SubSeq(e.ad, 1, 8) = u64_be_array(k)
    /\ e.encrypted =>
          e.wire = aead_encrypt(encryptor[1], u64_be_array(k), e.plain,
                                record_ad(u64_be_array(k), e.content_type, TLS_VERSION[1],
                                          TLS_VERSION[2], Len(e.plain)))

\* the k-th read under a cipher opened the record with sequence number k
ReadUsesSequence(decryptor, e, k) ==
    /\ e.count = k
    /\ e.nonce = u64_be_array(k)
    /\ (e.encrypted /\ e.res = "Ok") =>
          aead_decrypt(decryptor[1], u64_be_array(k), FragmentOf(e.wire),
                       record_ad(u64_be_array(k), e.wire[1], e.wire[2], e.wire[3],
                                 Len(FragmentOf(e.wire)) - MAC_LEN))
              = [res |-> "Ok", data |-> e.plain]

\* C5: the k-th successful write_record after the cipher was installed uses
\* sequence number k as the nonce and as the first 8 bytes of the associated
\* data, the k-th successful read_record uses sequence number k, a failed
\* record operation leaves the counter where it was, and the counters stand
\* at the number of successes.  Stated of the records each step adds to the
\* histories.
C5_SequenceNumbers ==
    [][/\ \A i \in (Len(wlog) + 1)..Len(wlog') :
              WriteUsesSequence(writer'.encryptor, wlog'[i],
                                Successes(wlog', i - 1, wlog'[i].encrypted))
       /\ \A i \in (Len(rlog) + 1)..Len(rlog') :
              ReadUsesSequence(reader'.decryptor, rlog'[i],
                               Successes(rlog', i - 1, rlog'[i].encrypted))
       /\ SubSeq(wlog', 1, Len(wlog)) = wlog
       /\ SubSeq(rlog', 1, Len(rlog)) = rlog
       /\ writer'.write_count = Successes(wlog', Len(wlog'), writer'.encryptor # None)
       /\ reader'.read_count = Successes(rlog', Len(rlog'), reader'.decryptor # None)]_vars

\* a write under the cipher failed, the next one succeeded with the same
\* sequence number, and two records came in under the cipher
C5_Witness ==
    /\ writer.encryptor # None
    /\ writer.write_count = 2
    /\ \E i \in 1..(Len(wlog) - 1) :
          /\ wlog[i].encrypted /\ wlog[i].res = "IoFailure"
          /\ wlog[i + 1].encrypted /\ wlog[i + 1].res = "Ok"
          /\ wlog[i + 1].count = wlog[i].count
    /\ reader.read_count = 2

\* C6: an installed cipher is never replaced or removed, a second
\* set_encryptor or set_decryptor fails its assertion and changes nothing,
\* and the counter is 0 right after an activation whatever it was before.
C6_ActivateOnce ==
    [][/\ writer.encryptor # None =>
              /\ writer'.encryptor = writer.encryptor
              /\ set_encryptor(writer, Rep(KEY_LEN, 0)) = [res |-> "Panic", writer |-> writer]
       /\ reader.decryptor # None =>
              /\ reader'.decryptor = reader.decryptor
              /\ set_decryptor(reader, Rep(KEY_LEN, 0)) = [res |-> "Panic", reader |-> reader]
       /\ (writer.encryptor = None /\ writer'.encryptor # None) =>
              writer.write_count > 0 /\ writer'.write_count = 0
       /\ (reader.decryptor = None /\ reader'.decryptor # None) =>
              reader.read_count > 0 /\ reader'.read_count = 0]_vars

\* a second activation was tried on the open session and was rejected
C6_Witness == pc = "panicked" /\ writer.encryptor # None /\ reader.decryptor # None

\* the step in which TlsClient::new returns Ok
NewReturnsOk == result = "None" /\ result' = "Ok"

\* C7, as stated: when new returns Ok both ciphers are installed and both
\* sequence counters are zero.
C7_CountersZero ==
    [][NewReturnsOk =>
          /\ writer'.encryptor # None
          /\ reader'.decryptor # None
          /\ writer'.write_count = 0
          /\ reader'.read_count = 0]_vars

\* C7, amended: when new returns Ok both ciphers are installed, the write
\* counter is 1 (the client's Finished took sequence number 0) and the read
\* counter is the number of records that carried the server's Finished, at
\* least 1.
C7_CountersAfterFinished ==
    [][NewReturnsOk =>
          /\ writer'.encryptor # None
          /\ reader'.decryptor # None
          /\ writer'.write_count = 1
          /\ reader'.read_count >= 1
          /\ reader'.read_count = Successes(rlog', Len(rlog'), TRUE)]_vars

\* new has just returned Ok after a server Finished that came in two records
C7_Witness ==
    /\ result = "Ok"
    /\ pc = "open"
    /\ Len(wlog) = 4
    /\ writer.write_count = 1
    /\ reader.read_count = 2

----------------------------------------------------------------------------
(* Properties of the alert path *)

\* the error kinds that correspond to an alert, with the description of each
AlertFor ==
    [UnexpectedMessage |-> unexpected_message, BadRecordMac |-> bad_record_mac,
     RecordOverflow |-> record_overflow, IllegalParameter |-> illegal_parameter,
     DecodeError |-> decode_error, DecryptError |-> decrypt_error,
     InternalError |-> internal_error]

\* the alert records among the writes
AlertsWritten == {i \in 1..Len(wlog) : wlog[i].content_type = AlertTy}

\* the last bytes of the transport's output are the record of the write e
EndsWithRecord(e) ==
    LET rec == Rec(e.content_type, TLS_VERSION[1], TLS_VERSION[2], e.wire)
    IN  /\ Len(writer.sink) >= Len(rec)
        /\ SubSeq(writer.sink, Len(writer.sink) - Len(rec) + 1, Len(writer.sink)) = rec

\* C8: when the handshake failed with one of the seven kinds that correspond
\* to an alert, new has, before it returns, made one write of an Alert
\* record: level fatal, the description of that kind, protected exactly when
\* the write cipher is installed; when new returns that kind the record is on
\* the transport, whole, as the last thing written.
C8_AlertOnFailure ==
    (pc = "returned" /\ err \in DOMAIN AlertFor) =>
        /\ AlertsWritten = {Len(wlog)}
        /\ wlog[Len(wlog)].plain = <<fatal, AlertFor[err]>>
        /\ wlog[Len(wlog)].encrypted = (writer.encryptor # None)
        /\ wlog[Len(wlog)].encrypted = (wlog[Len(wlog)].wire # wlog[Len(wlog)].plain)
        /\ result \in {err, "IoFailure"}
        /\ (result = err) = (wlog[Len(wlog)].res = "Ok")
        /\ result = err => EndsWithRecord(wlog[Len(wlog)])

\* new returned DecryptError after a protected decrypt_error alert
C8_Witness ==
    /\ pc = "returned"
    /\ result = "DecryptError"
    /\ wlog[Len(wlog)].encrypted
    /\ wlog[Len(wlog)].plain = <<fatal, decrypt_error>>

\* C9: when the error is IoFailure or AlertReceived, no alert record is
\* written before new returns it.
C9_NoAlertWritten ==
    (pc = "returned" /\ err \in {"IoFailure", "AlertReceived"}) => AlertsWritten = {}

\* C10: every alert read during the handshake, of either level and in any
\* waiting state, ends the handshake with AlertReceived.
C10_AlertIsFatal ==
    \A i \in 1..Len(mlog) :
        (mlog[i].kind = "Alert" /\ mlog[i].at \in WaitStates) =>
            /\ i = Len(mlog)
            /\ pc \in {"failed", "returned"}
            /\ err = "AlertReceived"

\* whether call i closed the session or failed: close() was called, or a read
\* or a write met an error or panicked
ClosesOrFails(c) == c.op = "close" \/ c.res # "Ok" \/ c.err # "None"

\* the ApplicationData records call c wrote, and the bytes it handed out
SentApplicationData(c) ==
    {k \in (c.from + 1)..c.to : wlog[k].content_type = ApplicationDataTy /\ wlog[k].res = "Ok"}

\* C11: the session is single-shot: after close() was called, or after a read
\* or a write failed, every later read and every later write fails, no further
\* ApplicationData record is sent and no further application data is delivered
C11_SingleShot ==
    \A i, j \in 1..Len(calls) :
        (i < j /\ ClosesOrFails(calls[i]) /\ calls[j].op \in {"read", "write"}) =>
            /\ calls[j].res # "Ok"
            /\ calls[j].op = "write" => SentApplicationData(calls[j]) = {}
            /\ calls[j].op = "read" => calls[j].data = <<>>

\* the records call c read
RecordsRead(c) == [k \in 1..(c.to - c.from) |-> rlog[c.from + k]]

\* whether the peer's close_notify was the first thing call c found, nothing
\* being buffered
ReadCloseNotify(c) ==
    /\ c.op = "read"
    /\ c.data = <<>>
    /\ c.to = c.from + 1
    /\ rlog[c.to].res = "Ok"
    /\ rlog[c.to].content_type = AlertTy
    /\ Len(rlog[c.to].plain) = 2
    /\ rlog[c.to].plain[2] = close_notify

\* C12: after the handshake, when the peer closes with a close_notify alert and
\* no undelivered application bytes are buffered, TlsClient::read returns Ok(0)
C12_CloseNotifyIsEof ==
    \A i \in 1..Len(calls) : ReadCloseNotify(calls[i]) => calls[i].res = "Ok" /\ calls[i].n = 0

\* C13: TlsClient::read returns an error whenever reading application data
\* fails with a protocol error or with a failure of the transport
C13_ReadErrorReturned ==
    \A i \in 1..Len(calls) :
        (calls[i].op = "read" /\ calls[i].err # "None") => calls[i].res = "Err"

\* the records of the entries from+1..to of a log, as they are on the wire
WireOf(log, ty, from, to) ==
    Concat([k \in 1..(to - from) |-> Rec(ty, TLS_VERSION[1], TLS_VERSION[2], log[from + k].wire)])

\* the plaintext of the entries from+1..to of a log, joined in order
PlainOf(log, from, to) == Concat([k \in 1..(to - from) |-> log[from + k].plain])

\* C14: TlsClient::write(buf) returns Ok(buf.len()) after all of buf went to the
\* transport as encrypted ApplicationData records in order, or it returns an
\* error; it never returns a smaller count
C14_WriteAllOrError ==
    [][(Len(calls') = Len(calls) + 1 /\ calls'[Len(calls')].op = "write") =>
          /\ calls'[Len(calls')].res \in {"Ok", "Err"}
          /\ calls'[Len(calls')].res = "Ok" =>
                /\ calls'[Len(calls')].n = Len(calls'[Len(calls')].data)
                /\ calls'[Len(calls')].from = Len(wlog)
                /\ calls'[Len(calls')].to = Len(wlog')
                /\ \A k \in (Len(wlog) + 1)..Len(wlog') :
                      /\ wlog'[k].res = "Ok"
                      /\ wlog'[k].encrypted
                      /\ wlog'[k].content_type = ApplicationDataTy
                /\ PlainOf(wlog', Len(wlog), Len(wlog')) = calls'[Len(calls')].data
                /\ writer'.sink = writer.sink \o WireOf(wlog', ApplicationDataTy, Len(wlog), Len(wlog'))
      ]_vars

C14_Witness ==
    /\ Len(calls) = 2
    /\ calls[1].op = "write" /\ calls[1].res = "Err"
    /\ calls[2].op = "write" /\ calls[2].res = "Ok" /\ calls[2].n = 2
    /\ wlog[calls[2].to].plain = <<5, 6>>

RECURSIVE SplitMessages(_)
\* the complete handshake messages at the head of a byte string, each as long
\* as its header says
SplitMessages(bytes) ==
    IF Len(bytes) < 4 \/ Len(bytes) < 4 + be_u24(bytes, 2) THEN <<>>
    ELSE <<Take(bytes, 4 + be_u24(bytes, 2))>>
         \o SplitMessages(Drop(bytes, 4 + be_u24(bytes, 2)))

\* what read_message returns for the message raw, delivered alone in one record
SingleRecord(raw) == read_message(TlsReader_new, Rec(HandshakeTy, 3, 3, raw))

\* the plaintext of the records read so far, joined in order
Delivered == PlainOf(rlog, 0, Len(rlog))

\* what the read_message calls returned so far
Returned == SelectSeq(calls, LAMBDA c : c.op = "read_message")

\* all that was read so far are non-empty Handshake records that carry
\* well-formed handshake messages
HandshakeOnly ==
    /\ \A i \in 1..Len(rlog) :
          rlog[i].res = "Ok" /\ rlog[i].content_type = HandshakeTy /\ rlog[i].plain # <<>>
    /\ \A k \in 1..Len(SplitMessages(Delivered)) :
          SingleRecord(SplitMessages(Delivered)[k]).res = "Ok"

\* the calls returned the first messages of `expected`, in order and as
\* single-record delivery gives them, and the buffer holds the bytes after them
Reassembled(expected, returned, buffer) ==
    /\ Len(returned) <= Len(expected)
    /\ \A k \in 1..Len(returned) :
          returned[k].res = "Ok" /\ returned[k].data = SingleRecord(expected[k]).msg
    /\ Concat(SubSeq(expected, 1, Len(returned))) \o buffer = Delivered
    /\ ~BufferHasMessage(reader) => Len(returned) = Len(expected)

\* C15: however the bytes of a sequence of handshake messages are cut into
\* non-empty Handshake records, successive read_message calls return exactly
\* those messages in wire order, each as single-record delivery yields it;
\* get_message returns nothing until the header and the whole declared body
\* are buffered, then removes exactly one message and leaves the bytes after it
C15_Reassembly ==
    HandshakeOnly => Reassembled(SplitMessages(Delivered), Returned, reader.handshake_buffer)

C15_Witness ==
    /\ HandshakeOnly
    /\ reader.decryptor # None
    /\ source = <<>>
    /\ Len(rlog) = 3 /\ Len(rlog[1].plain) = 2 /\ Len(rlog[2].plain) = 16
    /\ Len(Returned) = 3
    /\ Returned[2].data.handshake[1].ty = certificate

\* a turn of read_message read one more record, and read it well
RecordRead == Len(rlog') = Len(rlog) + 1 /\ rlog'[Len(rlog')].res = "Ok"

\* read_message returned in this step, with the error kind `kind`
ReturnedError(kind) ==
    /\ Len(calls') = Len(calls) + 1
    /\ calls'[Len(calls')].op = "read_message"
    /\ calls'[Len(calls')].res = "Err"
    /\ calls'[Len(calls')].err = kind
    /\ calls'[Len(calls')].data = NoMessage

\* C16: a ChangeCipherSpec, Alert or ApplicationData record that arrives while
\* the reassembly buffer holds an incomplete handshake message makes
\* read_message fail with UnexpectedMessage; its message is not returned
C16_InterleavedRecordFails ==
    [][(/\ RecordRead
        /\ rlog'[Len(rlog')].content_type \in {ChangeCipherSpecTy, AlertTy, ApplicationDataTy}
        /\ reader.handshake_buffer # <<>>)
       => ReturnedError("UnexpectedMessage")]_vars

\* what write_data(ty, data) has to write: the records from+1..to of wlog are
\* ceil(Len(data) / 2^14) records of type ty, all but the last of 2^14 bytes,
\* that carry data in order
Chunked(ty, data, from, to) ==
    /\ to - from = (Len(data) + RECORD_MAX_LEN - 1) \div RECORD_MAX_LEN
    /\ \A k \in (from + 1)..to :
          /\ wlog[k].res = "Ok"
          /\ wlog[k].content_type = ty
          /\ Len(wlog[k].plain) <= RECORD_MAX_LEN
          /\ k < to => Len(wlog[k].plain) = RECORD_MAX_LEN
    /\ PlainOf(wlog, from, to) = data

\* the reader returned the fragments written so far as read, one
\* ApplicationData message for each record, in order
ReadBack(returned) ==
    /\ Len(returned) = Len(rlog)
    /\ Len(returned) <= Len(wlog)
    /\ source = <<>> => Len(returned) = Len(wlog)
    /\ \A k \in 1..Len(returned) :
          /\ returned[k].res = "Ok"
          /\ returned[k].data = Message("ApplicationData", None, None, wlog[k].plain)

\* C17: write_data(ty, data) emits exactly ceil(L / 2^14) records of type ty, in
\* order, each with a fragment of at most 2^14 bytes and all but the last of
\* exactly 2^14, whose concatenation is data; a reader with the matching cipher
\* returns these fragments one for each read_message, in the same order
C17_WriteDataChunks ==
    (Len(calls) > 0 /\ calls[1].op = "write_data") =>
        /\ calls[1].res = "Ok"
        /\ Chunked(calls[1].data[1], calls[1].data[2], calls[1].from, calls[1].to)
        /\ writer.sink = WireOf(wlog, calls[1].data[1], 0, Len(wlog))
        /\ calls[1].data[1] = ApplicationDataTy => ReadBack(Returned)

C17_Witness ==
    /\ Len(calls) = 3 /\ calls[1].op = "write_data"
    /\ calls[1].data[1] = ApplicationDataTy /\ calls[1].len = RECORD_MAX_LEN + 200
    /\ writer.encryptor # None /\ reader.decryptor # None
    /\ source = <<>>
    /\ Len(calls[2].data.data) = RECORD_MAX_LEN
    /\ Len(calls[3].data.data) = 200

\* the header at the head of the transport announces more than a record may hold
HeaderOverflows ==
    /\ Len(source) >= 5
    /\ source[1] \in ContentType
    /\ be_u16(source, 4) > ENC_RECORD_MAX_LEN

\* C18: read_record on a header whose length field exceeds 2^14 + 2048 returns
\* RecordOverflow without reading a byte of the fragment from the transport and
\* without advancing the read sequence number
C18_HeaderOverflow ==
    [][(HeaderOverflows /\ Len(rlog') = Len(rlog) + 1) =>
          /\ rlog'[Len(rlog')].res = "RecordOverflow"
          /\ ReturnedError("RecordOverflow")
          /\ source' = Drop(source, 5)
          /\ reader'.read_count = reader.read_count]_vars

C18_Witness ==
    /\ Len(rlog) = 1 /\ rlog[1].res = "RecordOverflow"
    /\ rlog[1].wire = <<ApplicationDataTy, 3, 3, 72, 1>>
    /\ source = <<1, 2, 3>>
    /\ reader.read_count = 0 /\ reader.decryptor # None

\* the length of the plaintext of the record of entry e of rlog; 0 when the
\* transport did not hold a whole record or its MAC was wrong
PlaintextLen(e) ==
    IF Len(e.wire) < 5 \/ Len(e.wire) # 5 + be_u16(e.wire, 4) \/ e.res = "BadRecordMac" THEN 0
    ELSE IF e.encrypted THEN be_u16(e.wire, 4) - MAC_LEN
    ELSE be_u16(e.wire, 4)

\* C19: read_record returns RecordOverflow whenever the plaintext of the record
\* is longer than 2^14 bytes, without a cipher (the fragment received) and with
\* one (the plaintext decrypted); no Record with an over-long fragment is returned
C19_LongPlaintextOverflows ==
    \A i \in 1..Len(rlog) :
        PlaintextLen(rlog[i]) > RECORD_MAX_LEN => rlog[i].res = "RecordOverflow"

\* C20: read_message fails with UnexpectedMessage for every ChangeCipherSpec,
\* Alert or Handshake record whose fragment is empty; it returns no message for
\* it and adds nothing to the reassembly buffer
C20_EmptyFragmentFails ==
    [][(/\ RecordRead
        /\ rlog'[Len(rlog')].content_type \in {ChangeCipherSpecTy, AlertTy, HandshakeTy}
        /\ rlog'[Len(rlog')].plain = <<>>)
       => /\ ReturnedError("UnexpectedMessage")
          /\ reader'.handshake_buffer = reader.handshake_buffer]_vars

C20_Witness ==
    /\ Len(rlog) = 2 /\ rlog[2].res = "Ok" /\ rlog[2].encrypted
    /\ rlog[2].content_type = HandshakeTy /\ rlog[2].plain = <<>>
    /\ Len(calls) = 1 /\ calls[1].err = "UnexpectedMessage"
    /\ reader.handshake_buffer = Take(CERT, 3)


\* the fragment of an Alert record that is no alert: shorter than two bytes, or
\* a level or a description that is not enumerated
MalformedAlert(frag) ==
    \/ Len(frag) < 2
    \/ frag[1] \notin EnumTypes.AlertLevel.values
    \/ frag[2] \notin EnumTypes.AlertDescription.values

\* read_message returned an AlertMessage in this step
ReturnedAlert ==
    /\ Len(calls') = Len(calls) + 1
    /\ calls'[Len(calls')].op = "read_message"
    /\ calls'[Len(calls')].res = "Ok"
    /\ calls'[Len(calls')].data.kind = "Alert"

\* C21: read_message fails with UnexpectedMessage for an Alert record shorter
\* than 2 bytes and for one whose level or description byte is not enumerated;
\* an AlertMessage it returns is the two bytes of the one record just read, so
\* the bytes of a short alert are never joined with those of a later record
C21_MalformedAlertFails ==
    [][/\ (/\ RecordRead
            /\ rlog'[Len(rlog')].content_type = AlertTy
            /\ MalformedAlert(rlog'[Len(rlog')].plain))
           => ReturnedError("UnexpectedMessage")
       /\ ReturnedAlert
           => /\ RecordRead
              /\ rlog'[Len(rlog')].content_type = AlertTy
              /\ ~MalformedAlert(rlog'[Len(rlog')].plain)
              /\ calls'[Len(calls')].data.alert
                    = Some([level |-> rlog'[Len(rlog')].plain[1],
                            description |-> rlog'[Len(rlog')].plain[2]])]_vars

C21_Witness ==
    /\ Len(rlog) = 2 /\ reader.decryptor # None
    /\ rlog[1].res = "Ok" /\ rlog[1].content_type = AlertTy /\ rlog[1].plain = <<fatal>>
    /\ rlog[2].res = "Ok" /\ rlog[2].content_type = AlertTy /\ rlog[2].plain = <<close_notify>>
    /\ Len(calls) = 2
    /\ calls[1].err = "UnexpectedMessage" /\ calls[2].err = "UnexpectedMessage"


\* the transport holds a byte, and it is no content type
UnknownTypeAhead == source # <<>> /\ source[1] \notin ContentType

\* C22: read_record fails with UnexpectedMessage for a record whose content-type
\* byte is not 20, 21, 22 or 23; no message is returned for it, nothing is added
\* to the reassembly buffer and the read sequence number is not advanced
C22_UnknownContentType ==
    [][(UnknownTypeAhead /\ Len(rlog') = Len(rlog) + 1) =>
          /\ rlog'[Len(rlog')].res = "UnexpectedMessage"
          /\ ReturnedError("UnexpectedMessage")
          /\ mlog' = mlog
          /\ reader' = reader]_vars

C22_Witness ==
    /\ Len(rlog) = 2 /\ reader.decryptor # None
    /\ rlog[1].res = "Ok" /\ rlog[1].plain = <<7>>
    /\ rlog[2].wire = <<24>> /\ rlog[2].res = "UnexpectedMessage"
    /\ reader.read_count = 1
    /\ Len(calls) = 2 /\ calls[2].err = "UnexpectedMessage"


\* the greatest value of a record counter
SeqMax == SeqModulus - 1

\* C23: write_seq and read_seq never wrap: when a counter holds its greatest
\* value, the next record operation fails with InternalError, the counter is
\* not set back to 0 and no further record goes out or comes in under a
\* sequence number used before
C23_CountersNeverWrap ==
    [][/\ (writer.write_count = SeqMax /\ Len(wlog') = Len(wlog) + 1)
           => /\ wlog'[Len(wlog')].res = "InternalError"
              /\ writer'.write_count = SeqMax
              /\ pc' # "panicked"
       /\ (reader.read_count = SeqMax /\ Len(rlog') = Len(rlog) + 1)
           => /\ rlog'[Len(rlog')].res = "InternalError"
              /\ reader'.read_count = SeqMax
              /\ pc' # "panicked"]_vars


\* the fields of a ServerHello message as its bytes on the wire hold them: the
\* version after the 4-byte header, the suite and the compression method after
\* the random and the session id
WireServerVersion(raw) == <<raw[5], raw[6]>>

WireCipherSuite(raw) == <<raw[40 + raw[39]], raw[41 + raw[39]]>>

WireCompression(raw) == raw[42 + raw[39]]

\* a ServerHello that selects another version, another suite or a compression
BadServerHello(raw) ==
    \/ WireServerVersion(raw) # <<3, 3>>
    \/ WireCipherSuite(raw) # <<204, 19>>
    \/ WireCompression(raw) # 0

\* read_message returned a ServerHello to expect!(server_hello) in this step
ServerHelloReceived ==
    /\ pc = "wait_sh"
    /\ Len(mlog') = Len(mlog) + 1
    /\ mlog'[Len(mlog')].kind = "Handshake"
    /\ mlog'[Len(mlog')].ty = server_hello

WireCurveParams(raw) == <<raw[5], be_u16(raw, 6)>>

WirePublic(raw) == SubSeq(raw, 9, 8 + raw[8])

\* read_message returned a ServerKeyExchange to expect!(server_key_exchange)
ServerKeyExchangeReceived ==
    /\ pc = "wait_skx"
    /\ Len(mlog') = Len(mlog) + 1
    /\ mlog'[Len(mlog')].kind = "Handshake"
    /\ mlog'[Len(mlog')].ty = server_key_exchange

\* C25: the key exchange fails, and the handshake with it, with IllegalParameter
\* unless the ServerKeyExchange names the curve secp256r1 as a named curve and
\* its public is an uncompressed point on that curve; a ServerKeyExchange that
\* names another curve is rejected even with a valid P-256 point
C25_KeyExchangeValidated ==
    [][(/\ ServerKeyExchangeReceived
        /\ \/ WireCurveParams(wire_hs'[Len(wire_hs')]) # <<3, secp256r1>>
           \/ ~from_uncompressed_bytes_ok(WirePublic(wire_hs'[Len(wire_hs')])))
       => pc' = "failed" /\ err' = "IllegalParameter"]_vars


\* read_message returned a CertificateRequest after the Certificate was read,
\* to the expect!(server_key_exchange) that follows expect!(certificate)
CertificateRequestReceived ==
    /\ pc = "wait_skx"
    /\ Len(mlog') = Len(mlog) + 1
    /\ mlog'[Len(mlog')].kind = "Handshake"
    /\ mlog'[Len(mlog')].ty = certificate_request

\* C26: a CertificateRequest that the server sends between Certificate and
\* ServerKeyExchange is accepted and ignored: the handshake does not fail and
\* goes on to wait for the ServerKeyExchange
C26_CertificateRequestIgnored ==
    [][CertificateRequestReceived => pc' = "wait_skx" /\ err' = "None"]_vars


\* the type of the first extension of a ServerHello message as its bytes on
\* the wire hold it, after the compression method and the length of the vector
WireExtensionType(raw) == be_u16(raw, 45 + raw[39])

\* frag is one whole ServerHello message that passes the checks of the
\* handshake and carries an extension of a type the client does not know
UnknownExtensionHello(frag) ==
    /\ Len(frag) >= 46 /\ frag[1] = server_hello
    /\ Len(frag) = 4 + be_u24(frag, 2)
    /\ Len(frag) >= 46 + frag[39]
    /\ ~BadServerHello(frag)
    /\ WireExtensionType(frag) \notin {10, 11}

\* expect!(server_hello) read a record, in the clear, into an empty buffer
ServerHelloRecordRead ==
    /\ pc = "wait_sh"
    /\ reader.handshake_buffer = <<>>
    /\ RecordRead
    /\ rlog'[Len(rlog')].content_type = HandshakeTy

\* C27: a ServerHello that carries an extension of a type other than
\* elliptic_curves (10) and ec_point_formats (11) is accepted: the extension is
\* ignored and the handshake goes on to the Certificate
C27_UnknownExtensionIgnored ==
    [][(ServerHelloRecordRead /\ UnknownExtensionHello(rlog'[Len(rlog')].plain))
       => pc' = "wait_cert" /\ err' = "None"]_vars


\* C28: for every item type, reading the bytes that writing a value x produced
\* yields x, and writing the value read from a byte string that the reader
\* accepts succeeds and yields exactly the bytes read; cipher-suite identifiers
\* and handshake messages with their 3-byte length are among the items
C28_CodecRoundTrip ==
    Len(calls) = 2 =>
        /\ calls[1].op = "tls_write"
            => calls[2].res = "Ok" /\ calls[2].data[2] = calls[1].data[2]
        /\ calls[1].op = "tls_read"
            => calls[2].res = "Ok" /\ calls[2].data[3] = calls[1].data[3]


C30_PrfChunking ==
    test_prf # None =>
        test_prf[1].ret = Prf_get_bytes(Prf_new(test_prf[1].prf.secret, test_prf[1].prf.seed),
                                        Len(test_prf[1].ret)).ret

\* 100 bytes were got from the Prf of test_get_bytes, the last one alone and from
\* the bytes left over by an earlier call
C30_Witness ==
    /\ test_prf # None
    /\ test_prf[1].prf.secret = <<>> /\ test_prf[1].prf.seed = <<>>
    /\ Len(test_prf[1].ret) = 100
    /\ test_prf[1].size = 1
    /\ Len(test_prf[1].prf.buf) = 4 * HASH_LEN - 100


\* C31: under the write key of the session no two calls of the encryptor get the
\* same nonce, whether or not the record of the earlier call reached the transport
C31_NonceNeverReused ==
    \A i, j \in 1..Len(wlog) :
        (i < j /\ wlog[i].encrypted /\ wlog[j].encrypted) => wlog[i].nonce # wlog[j].nonce


\* C32: when the read cipher is installed the handshake buffer of the reader is
\* empty, so no handshake message is put together from bytes that came before the
\* ChangeCipherSpec of the server and bytes that came after it
C32_BufferEmptyAtCipherChange ==
    [][(reader.decryptor = None /\ reader'.decryptor # None)
       => reader'.handshake_buffer = <<>>]_vars


\* C33: a reader with the key of the writer accepts the record it is handed only if
\* it is, byte for byte, the record the writer wrote at the position the reader is
\* at; a record written at another position (replayed, early, late) or with another
\* content type, version or length in its header fails with BadRecordMac
C33_RecordBoundToPosition ==
    [][\A i \in (Len(rlog) + 1)..Len(rlog') :
          (pc = "channel" /\ rlog'[i].encrypted) =>
              IF rlog'[i].count < Len(wlog) /\ rlog'[i].wire = Sent(rlog'[i].count + 1)
              THEN rlog'[i].res = "Ok" /\ rlog'[i].plain = wlog[rlog'[i].count + 1].plain
              ELSE rlog'[i].res = "BadRecordMac"]_vars

\* the first record written was accepted, then handed over again and refused
C33_Witness ==
    /\ pc = "channel" /\ Len(rlog) = 2
    /\ rlog[1].res = "Ok" /\ rlog[1].wire = Sent(1)
    /\ rlog[2].wire = Sent(1) /\ rlog[2].res = "BadRecordMac"


\* the bytes the read calls have returned, in the order of the calls
AppDataReturned ==
    Concat([i \in 1..Len(calls) |->
               IF calls[i].op = "read" /\ calls[i].res = "Ok" THEN calls[i].data ELSE <<>>])

\* the ApplicationData fragments received, in the order of arrival
AppDataReceived ==
    Concat([i \in 1..Len(rlog) |->
               IF rlog[i].encrypted /\ rlog[i].res = "Ok"
                  /\ rlog[i].content_type = ApplicationDataTy
               THEN rlog[i].plain ELSE <<>>])

\* C34: the bytes TlsClient::read has returned so far, followed by the bytes kept in
\* TlsClient.buf, are the ApplicationData fragments received so far, in order: what
\* was returned is a prefix of what arrived, and what did not fit is kept for the
\* next read
C34_ReadsAreAPrefix ==
    pc # "panicked" => AppDataReturned \o client_buf = AppDataReceived

\* a read of one byte got the first byte of a fragment of two, and the next read
\* returned the second byte before the bytes of the next fragment
C34_Witness ==
    /\ Len(calls) = 2
    /\ calls[1].op = "read" /\ calls[1].len = 1 /\ calls[1].data = <<1>>
    /\ calls[2].op = "read" /\ calls[2].len = 3 /\ calls[2].data = <<2, 3>>


\* the binary numeral of the 32-byte scalar n, most significant bit first
ScalarBits(n) == [k \in 1..(32 * LIMBS) |-> (n[1 + ((k - 1) \div 8)] \div (2 ^ (7 - ((k - 1) % 8)))) % 2]

\* a binary numeral without its leading zeros
StripZeros(bits) ==
    IF \A k \in 1..Len(bits) : bits[k] = 0 THEN <<>>
    ELSE SubSeq(bits, CHOOSE k \in 1..Len(bits) : bits[k] = 1 /\ \A m \in 1..(k - 1) : bits[m] = 0,
                Len(bits))

\* C35: mult_scalar(n) looks at each of the 256 bits of n once, from bit 255 down to
\* bit 0, and returns n times the point
C35_LadderOverAllBits ==
    \A i \in 1..Len(calls) :
        calls[i].op = "mult_scalar" =>
            /\ calls[i].data[2] = [k \in 1..(32 * LIMBS) |-> 32 * LIMBS - k]
            /\ StripZeros(calls[i].data[3]) = StripZeros(ScalarBits(calls[i].data[1]))



\* the length field in front of the bytes b of a vector of type t
vec_length_field(t, b) == read_num(LenBytes(VecTypes[t].max), b)

\* C36: tls_read fails with DecodeError when the bytes run out inside an array of
\* fixed size, when the elements of a vector do not take the number of bytes its
\* length field gives, and when the bytes of a vector are fewer than the least or
\* more than the most its type allows
C36_DecodeErrors ==
    \A i \in 1..Len(calls) :
        calls[i].op = "tls_read" =>
            LET t == calls[i].data[1]
                b == calls[i].data[3]
            IN  /\ (t \in DOMAIN ArrayTypes /\ Len(b) < ArrayTypes[t])
                       => calls[i].err = "DecodeError"
                /\ (t \in DOMAIN VecTypes /\ vec_length_field(t, b).res = "Ok")
                       => LET l == vec_length_field(t, b)
                              r == read_items(VecTypes[t].item, l.rest, l.val, 0, <<>>)
                          IN  /\ (r.res = "Ok" /\ r.size # l.val)
                                     => calls[i].err = "DecodeError"
                              /\ (r.res = "Ok" /\ r.size = l.val
                                  /\ (l.val < VecTypes[t].min \/ l.val > VecTypes[t].max))
                                     => calls[i].err = "DecodeError"



\* C37: a record that a read call of the open connection took from the peer and
\* whose header carries a version other than (3,3) is not accepted, whatever the
\* peer sealed it with
C37_RecordVersionChecked ==
    \A i \in 1..Len(calls) :
        calls[i].op = "read" =>
            \A k \in 1..Len(RecordsRead(calls[i])) :
                LET e == RecordsRead(calls[i])[k]
                IN  (Len(e.wire) >= 3 /\ <<e.wire[2], e.wire[3]>> # <<3, 3>>)
                        => e.res # "Ok"



\* whether the 32 bytes b, most significant first, are a number below P256
BelowP256(b) == sub_no_reduce([i \in 1..32 |-> b[33 - i]], P256).carry = 1

\* C38: from_uncompressed_bytes returns a point only for 65 bytes that start with 4
\* and whose two coordinates are below P256 (and satisfy the equation of the curve,
\* which is what the function compares last)
C38_OnlyCanonicalPoints ==
    \A i \in 1..Len(calls) :
        (calls[i].op = "from_uncompressed_bytes" /\ calls[i].res = "Some") =>
            LET data == calls[i].data[1]
            IN  /\ Len(data) = 65
                /\ data[1] = 4
                /\ BelowP256(SubSeq(data, 2, 33))
                /\ BelowP256(SubSeq(data, 34, 65))



\* C39: on slices of the same length crypto_compare returns true exactly when the
\* slices are the same, and its loop makes one iteration for each byte, in the same
\* order, wherever the first difference is: two calls on slices of one length make
\* the same iterations
C39_CompareInConstantSteps ==
    \A i, j \in 1..Len(calls) :
        (calls[i].op = "crypto_compare" /\ calls[j].op = "crypto_compare") =>
            /\ (calls[i].res = "true") = (calls[i].data[1] = calls[i].data[2])
            /\ calls[i].data[3] = [k \in 1..Len(calls[i].data[1]) |-> k - 1]
            /\ Len(calls[i].data[1]) = Len(calls[j].data[1])
                   => calls[i].data[3] = calls[j].data[3]

\* the verify data was compared with a copy of itself and with bytes that differ
\* at the first place
C39_Witness ==
    /\ Len(calls) = 2
    /\ calls[1].op = "crypto_compare" /\ calls[1].res = "true"
    /\ calls[1].data[1] = CompareWith
    /\ calls[2].op = "crypto_compare" /\ calls[2].res = "false"
    /\ calls[2].data[2] = ByteSet(CompareWith, 1, 0)
    /\ Len(calls[2].data[3]) = VERIFY_DATA_LEN



\* C40: a write_record whose encryptor returns more than 2^14 + 2048 bytes panics
\* with nothing added to the sink and the sequence number as it was; a
\* write_record that returns has added to the sink one record whose length field
\* is the length of the fragment, at most 2^14 + 2048
C40_TooLongPanicsBeforeWriting ==
    [][\A i \in (Len(wlog) + 1)..Len(wlog') :
          (pc = "test_writer" /\ wlog'[i].encrypted) =>
              IF Len(wlog'[i].wire) > ENC_RECORD_MAX_LEN
              THEN /\ wlog'[i].res = "Panic" /\ pc' = "panicked"
                   /\ writer'.sink = writer.sink
                   /\ writer'.write_count = writer.write_count
              ELSE /\ wlog'[i].res = "Ok"
                   /\ writer'.sink = writer.sink \o Rec(ApplicationDataTy, 3, 3, wlog'[i].wire)
                   /\ be_u16(Drop(writer'.sink, Len(writer.sink)), 4) = Len(wlog'[i].wire)
                   /\ writer'.write_count = writer.write_count + 1]_vars

\* a record of the greatest length went out, then the encryptor returned one byte more and
\* write_record panicked
C40_Witness ==
    /\ pc = "panicked" /\ Len(wlog) = 2
    /\ wlog[1].res = "Ok" /\ Len(wlog[1].wire) = ENC_RECORD_MAX_LEN
    /\ wlog[2].res = "Panic" /\ Len(wlog[2].wire) = ENC_RECORD_MAX_LEN + 1
    /\ writer.write_count = 1 /\ Len(writer.sink) = 5 + ENC_RECORD_MAX_LEN

=============================================================================
